---- MODULE Spec2Model ----
(***************************************************************************)
(* Verification model of canstralian/copilot-build: the VS Code extension  *)
(* that supervises one MCP server child process, the workspace path        *)
(* validator, and the modular MCP server with its tool handlers.           *)
(*                                                                         *)
(* The specifications of the module:                                       *)
(*   Spec      - the extension's process supervisor (extension.ts)         *)
(*   SpecPath  - SecurityManager.validatePath as a pure function           *)
(*   SpecSrv   - ModularMcpServer with its tool handlers                   *)
(*   SpecCalc  - CalculateToolHandler.execute over bounded expressions     *)
(*   SpecShell - the command lines the git and process tools execute       *)
(*   SpecCfg   - ConfigManager.loadConfig and getSanitizedConfig           *)
(* Strings are sequences of one-character tokens, so that includes,        *)
(* startsWith, path.normalize and path.resolve are computed as Node's      *)
(* POSIX implementation computes them.                                     *)
(***************************************************************************)
EXTENDS Integers, Sequences, FiniteSets, TLC

VARIABLES
  \* ---- extension.ts: process supervisor ----
  serverProcess,     \* the module-level handle: 0 (null) or a child id
  nextChild,         \* id the next childProcess.spawn will hand out
  alive,             \* ids of children whose OS process is running
  signals,           \* child id -> set of signals delivered to it
  listening,         \* children with close/error handlers attached
  pendingClose,      \* children that exited, 'close' not yet dispatched
  pendingError,      \* children whose spawn failed, 'error' not yet dispatched
  forceKillTimeout,  \* "none" | "armed" | "fired" | "cleared"
  exitListener,      \* child the deactivate 'exit' listener is attached to
  deactivated,       \* deactivate() has run
  spawnOutcome,      \* how the last childProcess.spawn turned out
  shown,             \* the last message shown through vscode.window
  \* ---- SecurityManager.validatePath ----
  workspaceRoot,     \* SecurityManager.workspaceRoot (resolved, absolute)
  pathArg,     \* the argument of validatePath
  pathResult,        \* outcome of the call, NoCall before it
  legacyPath,        \* outcome of the legacy server's validatePath
  legacyCalc,        \* how far the legacy server's handleCalculate got
  \* ---- ModularMcpServer and tool handlers ----
  maxFileSize,       \* SecurityManager.maxFileSize
  fs,                \* filesystem: absolute path -> node
  fsLog,             \* fs calls made by the last file_operation request
  enabledTools,      \* config.enabledTools given to the constructor
  toolHandlers,      \* the Map: registered tool name -> handler class
  lastRequest,       \* the last request handled
  lastResult,        \* what the handler returned (or that it threw)
  \* ---- CalculateToolHandler.execute ----
  calcArg,           \* the arguments of the call
  calcResult,        \* outcome of the call and what eval was given
  \* ---- GitToolHandler / ProcessToolHandler execute ----
  shellReq,          \* the tool called and its arguments
  shellRun,          \* outcome of the call and the commands it executed
  \* ---- ConfigManager ----
  cfgIn,             \* process.env and the parsed config file
  cfgLoaded,         \* ConfigManager.config: null or the loaded configuration
  cfgSanitized,      \* what the last getSanitizedConfig returned
  loadCalls,         \* the loadConfig calls made on the singleton, by number
  configFiles,       \* what fs.readFile finds under each config path
  gotConfig,         \* what the last getConfig did
  \* ---- ModularMcpServer: construction and shutdown ----
  constructed,       \* "no" | "ok" | "threw": how the constructor ended
  closing,           \* gracefulShutdown calls awaiting server.close()
  closeDone,         \* "none" | "resolved" | "rejected": the close awaited last
  exitCode           \* -1 while the process runs, then process.exit's code

procVars == <<serverProcess, nextChild, alive, signals, listening,
              pendingClose, pendingError, forceKillTimeout, exitListener,
              deactivated, spawnOutcome, shown>>
pathVars == <<workspaceRoot, pathArg, pathResult, legacyPath, legacyCalc>>
srvVars  == <<maxFileSize, fs, fsLog, enabledTools, toolHandlers,
              lastRequest, lastResult>>
calcVars == <<calcArg, calcResult>>
shellVars == <<shellReq, shellRun>>
cfgVars == <<cfgIn, cfgLoaded, cfgSanitized, loadCalls, configFiles, gotConfig>>
lifeVars == <<constructed, closing, closeDone, exitCode>>
vars == <<procVars, pathVars, srvVars, calcVars, shellVars, cfgVars,
          lifeVars>>

----------------------------------------------------------------------------
(* Bounds *)

\* number of startMcpServer invocations explored
MaxSpawns == 3

Null == 0
Children == 1..MaxSpawns

----------------------------------------------------------------------------
(* extension.ts: startMcpServer / deactivate and the child's events *)

Kill_notDelivered(sigs, c, sig) == sigs

\* ChildProcess.kill(sig): delivers sig if the process is still running,
\* otherwise does nothing; it does not wait for the process to exit.
Kill(sigs, c, sig) ==
  IF c \in alive THEN [sigs EXCEPT ![c] = @ \cup {sig}] ELSE sigs

ProcIdle ==
  /\ serverProcess = Null
  /\ nextChild = 1
  /\ alive = {}
  /\ signals = [c \in Children |-> {}]
  /\ listening = {}
  /\ pendingClose = {}
  /\ pendingError = {}
  /\ forceKillTimeout = "none"
  /\ exitListener = Null
  /\ deactivated = FALSE
  /\ spawnOutcome = "none"
  /\ shown = "none"

\* The four ways childProcess.spawn can turn out:
\*   "ok"        the process runs, stdio pipes exist
\*   "throw"     spawn throws synchronously, no ChildProcess object
\*   "nostreams" spawn returns a ChildProcess without stdout/stderr (the
\*               process was not created); the handler throws
\*   "enoent"    spawn returns a ChildProcess with pipes, the process was not
\*               created, 'error' is emitted on a later tick
\* startMcpServer below takes the outcome as its argument.

\* the message of line 611, without the error's own text
M_FAILED == "Failed to start MCP Server"

startMcpServer_keepHandle(outcome) ==
  /\ nextChild <= MaxSpawns
  /\ spawnOutcome' = outcome
  /\ shown' = IF outcome \in {"ok", "enoent"} THEN "MCP Server started successfully!"
                ELSE M_FAILED
  /\ LET c == nextChild
         sigs1 == IF serverProcess # Null
                    THEN Kill(signals, serverProcess, "SIGTERM")
                    ELSE signals
     IN /\ signals' = sigs1
        /\ CASE outcome = "ok" ->
                  /\ serverProcess' = c
                  /\ nextChild' = c + 1
                  /\ alive' = alive \cup {c}
                  /\ listening' = listening \cup {c}
                  /\ UNCHANGED pendingError
             [] outcome = "enoent" ->
                  /\ serverProcess' = c
                  /\ nextChild' = c + 1
                  /\ listening' = listening \cup {c}
                  /\ pendingError' = pendingError \cup {c}
                  /\ UNCHANGED alive
             [] outcome = "nostreams" ->
                  /\ serverProcess' = c
                  /\ nextChild' = c + 1
                  /\ UNCHANGED <<alive, listening, pendingError>>
             [] outcome = "throw" ->
                  /\ serverProcess' = Null
                  /\ nextChild' = c + 1
                  /\ UNCHANGED <<alive, listening, pendingError>>
  /\ UNCHANGED <<pendingClose, forceKillTimeout, exitListener, deactivated>>

\* lines 552-614
\* The command stays callable for as long as the module is loaded: nothing
\* in startMcpServer asks whether deactivate has run.
startMcpServer(outcome) ==
  /\ nextChild <= MaxSpawns
  \* line 607 on success, line 611 in the catch block
  /\ spawnOutcome' = outcome
  /\ shown' = IF outcome \in {"ok", "enoent"} THEN "MCP Server started successfully!"
                ELSE M_FAILED
  /\ LET c == nextChild
         \* lines 556-564: SIGTERM the tracked child, forget it
         sigs1 == IF serverProcess # Null
                    THEN Kill(signals, serverProcess, "SIGTERM")
                    ELSE signals
     IN /\ signals' = sigs1
        /\ CASE outcome = "ok" ->
                  /\ serverProcess' = c
                  /\ nextChild' = c + 1
                  /\ alive' = alive \cup {c}
                  /\ listening' = listening \cup {c}
                  /\ UNCHANGED pendingError
             [] outcome = "enoent" ->
                  /\ serverProcess' = c
                  /\ nextChild' = c + 1
                  /\ listening' = listening \cup {c}
                  /\ pendingError' = pendingError \cup {c}
                  /\ UNCHANGED alive
             [] outcome = "nostreams" ->
                  \* line 579 throws, line 612 resets the handle
                  /\ serverProcess' = Null
                  /\ nextChild' = c + 1
                  /\ UNCHANGED <<alive, listening, pendingError>>
             [] outcome = "throw" ->
                  /\ serverProcess' = Null
                  /\ nextChild' = c + 1
                  /\ UNCHANGED <<alive, listening, pendingError>>
  /\ UNCHANGED <<pendingClose, forceKillTimeout, exitListener, deactivated>>

\* The OS process of child c ends (by itself, or because of a signal it was
\* sent).  Node emits 'exit' at once; 'close' follows when the pipes close.
\* The 'exit' listener registered by deactivate clears the timer.
ChildExit(c) ==
  /\ c \in alive
  /\ alive' = alive \ {c}
  /\ pendingClose' = pendingClose \cup {c}
  /\ forceKillTimeout' = IF exitListener = c /\ forceKillTimeout = "armed"
                           THEN "cleared" ELSE forceKillTimeout
  /\ UNCHANGED <<serverProcess, nextChild, signals, listening, pendingError,
                 exitListener, deactivated, spawnOutcome, shown>>

\* lines 590-593: the 'close' handler of child c
OnClose(c) ==
  /\ c \in pendingClose
  /\ pendingClose' = pendingClose \ {c}
  /\ serverProcess' = IF c \in listening THEN Null ELSE serverProcess
  /\ UNCHANGED <<nextChild, alive, signals, listening, pendingError,
                 forceKillTimeout, exitListener, deactivated, spawnOutcome,
                 shown>>

\* lines 595-599: the 'error' handler of child c (spawn failed)
OnError(c) ==
  /\ c \in pendingError
  /\ c \in listening
  /\ pendingError' = pendingError \ {c}
  /\ serverProcess' = Null
  /\ shown' = "MCP Server error"
  /\ UNCHANGED <<nextChild, alive, signals, listening, pendingClose,
                 forceKillTimeout, exitListener, deactivated, spawnOutcome>>

\* lines 648-671
deactivate ==
  /\ ~deactivated
  /\ deactivated' = TRUE
  /\ IF serverProcess # Null
       THEN /\ signals' = Kill(signals, serverProcess, "SIGTERM")
            /\ forceKillTimeout' = "armed"
            /\ exitListener' = serverProcess
            /\ serverProcess' = Null
       ELSE UNCHANGED <<signals, forceKillTimeout, exitListener,
                        serverProcess>>
  /\ UNCHANGED <<nextChild, alive, listening, pendingClose, pendingError,
                 spawnOutcome, shown>>

\* lines 656-661: the setTimeout callback, 5 seconds after deactivate
ForceKillTimer ==
  /\ forceKillTimeout = "armed"
  /\ forceKillTimeout' = "fired"
  /\ signals' = IF serverProcess # Null
                  THEN Kill(signals, serverProcess, "SIGKILL")
                  ELSE signals
  /\ UNCHANGED <<serverProcess, nextChild, alive, listening, pendingClose,
                 pendingError, exitListener, deactivated, spawnOutcome,
                 shown>>

----------------------------------------------------------------------------
(* Strings: sequences of one-character tokens *)

SLASH == "/"
DOT == "."
BACKSLASH == "\\"
TILDE == "~"
NUL == "NUL"

\* String.prototype.includes
Includes(s, pat) ==
  \E i \in 1..(Len(s) - Len(pat) + 1) :
     \A j \in 1..Len(pat) : s[i + j - 1] = pat[j]

\* String.prototype.startsWith
StartsWith(s, pre) ==
  /\ Len(pre) <= Len(s)
  /\ \A j \in 1..Len(pre) : s[j] = pre[j]

\* String.prototype.split('/') : the segments between separators
SlashPos(s) == {i \in 1..Len(s) : s[i] = SLASH}

Split(s) ==
  LET sp == SlashPos(s)
      n == Cardinality(sp)
      \* position of the k-th separator; 0 and Len(s)+1 are the two ends
      Sep(k) == IF k = 0 THEN 0
                ELSE IF k = n + 1 THEN Len(s) + 1
                ELSE CHOOSE i \in sp : Cardinality({j \in sp : j < i}) = k - 1
  IN [k \in 1..(n + 1) |-> SubSeq(s, Sep(k - 1) + 1, Sep(k) - 1)]

RECURSIVE Join(_)
Join(segs) ==
  IF Len(segs) = 0 THEN <<>>
  ELSE IF Len(segs) = 1 THEN segs[1]
  ELSE segs[1] \o <<SLASH>> \o Join(Tail(segs))

\* path.posix normalizeString(path, allowAboveRoot): resolves "." and ".."
\* segments and drops empty ones; returns the list of remaining segments
RECURSIVE NormalizeSegs(_, _, _)
NormalizeSegs(segs, acc, allowAboveRoot) ==
  IF Len(segs) = 0 THEN acc
  ELSE LET seg == segs[1]
           rest == Tail(segs)
       IN IF seg = <<>> \/ seg = <<DOT>>
            THEN NormalizeSegs(rest, acc, allowAboveRoot)
          ELSE IF seg = <<DOT, DOT>>
            THEN IF Len(acc) > 0 /\ acc[Len(acc)] # <<DOT, DOT>>
                   THEN NormalizeSegs(rest, SubSeq(acc, 1, Len(acc) - 1),
                                      allowAboveRoot)
                 ELSE IF allowAboveRoot
                   THEN NormalizeSegs(rest, Append(acc, seg), allowAboveRoot)
                 ELSE NormalizeSegs(rest, acc, allowAboveRoot)
          ELSE NormalizeSegs(rest, Append(acc, seg), allowAboveRoot)

normalizeString(p, allowAboveRoot) ==
  Join(NormalizeSegs(Split(p), <<>>, allowAboveRoot))

\* path.isAbsolute (POSIX)
isAbsolute(p) == Len(p) > 0 /\ p[1] = SLASH

\* path.normalize (POSIX)
normalize(p) ==
  IF Len(p) = 0 THEN <<DOT>>
  ELSE LET abs == isAbsolute(p)
           trailing == p[Len(p)] = SLASH
           body == normalizeString(p, ~abs)
       IN IF Len(body) = 0
            THEN IF abs THEN <<SLASH>>
                 ELSE IF trailing THEN <<DOT, SLASH>> ELSE <<DOT>>
          ELSE (IF abs THEN <<SLASH>> ELSE <<>>) \o body
               \o (IF trailing THEN <<SLASH>> ELSE <<>>)

\* path.resolve(from, to) (POSIX) for an absolute `from`: the arguments are
\* taken right to left until an absolute one is met, then normalised
resolve(from, to) ==
  LET joined == IF Len(to) = 0 THEN from
                ELSE IF isAbsolute(to) THEN to
                ELSE from \o <<SLASH>> \o to
      body == normalizeString(joined, FALSE)
  IN <<SLASH>> \o body

\* path.dirname (POSIX) of an absolute, normalised path
dirname(p) ==
  LET sp == SlashPos(p)
      last == CHOOSE i \in sp : \A j \in sp : j <= i
  IN IF last = 1 THEN <<SLASH>> ELSE SubSeq(p, 1, last - 1)

----------------------------------------------------------------------------
(* SecurityManager.validatePath *)

\* the literal 1000 of the length check
MaxPathLength == 1000

\* longest path enumerated exhaustively
MaxLen == 3

Rep(c, n) == [i \in 1..n |-> c]

NoCall == [called |-> FALSE]
Err(m, pat) == [called |-> TRUE, ok |-> FALSE, error |-> m, pattern |-> pat]

E_SUSPICIOUS == "Security violation: pattern not allowed in paths"
E_OUTSIDE == "Access denied: Path is outside workspace boundary"
E_ABSOLUTE == "Absolute paths not allowed. Use paths relative to workspace"

suspiciousPatterns_noDotSlash ==
  << <<DOT, DOT>>, <<BACKSLASH>>, <<TILDE>> >>

\* line 39
suspiciousPatterns ==
  << <<DOT, DOT>>, <<DOT, SLASH>>, <<BACKSLASH>>, <<TILDE>> >>

\* lines 40-44: index of the first pattern, in list order, the path includes
FirstSuspicious(p) ==
  LET hits == {i \in 1..Len(suspiciousPatterns) :
                  Includes(p, suspiciousPatterns[i])}
  IN IF hits = {} THEN 0 ELSE CHOOSE i \in hits : \A j \in hits : i <= j

\* lines 27-37: the checks on the raw argument
InputCheck(p) ==
  IF Len(p) = 0 THEN "Invalid path: path must be a non-empty string"
  ELSE IF Len(p) > MaxPathLength
    THEN "Path too long (max 1000 characters)"
  ELSE IF Includes(p, <<NUL>>)
    THEN "Invalid path: null bytes not allowed"
  ELSE ""

BoundaryCheck_missing(root, p, resolvedPath) == ""

\* lines 49-55: the checks on the resolved path
BoundaryCheck(root, p, resolvedPath) ==
  IF ~StartsWith(resolvedPath, root \o <<SLASH>>) /\ resolvedPath # root
    THEN E_OUTSIDE
  ELSE IF isAbsolute(p) THEN E_ABSOLUTE
  ELSE ""

\* lines 26-59
validatePath(root, p) ==
  IF InputCheck(p) # "" THEN Err(InputCheck(p), <<>>)
  ELSE IF FirstSuspicious(p) # 0
    THEN Err(E_SUSPICIOUS, suspiciousPatterns[FirstSuspicious(p)])
  ELSE LET normalizedPath == normalize(p)
           resolvedPath == resolve(root, normalizedPath)
       IN IF BoundaryCheck(root, p, resolvedPath) # ""
            THEN Err(BoundaryCheck(root, p, resolvedPath), <<>>)
          ELSE [called |-> TRUE, ok |-> TRUE, path |-> resolvedPath]

PathIdle ==
  /\ workspaceRoot = <<SLASH>>
  /\ pathArg = <<>>
  /\ pathResult = NoCall
  /\ legacyPath = NoCall
  /\ legacyCalc = NoCall

ValidatePathCall ==
  /\ pathResult = NoCall
  /\ pathResult' = validatePath(workspaceRoot, pathArg)
  /\ UNCHANGED <<workspaceRoot, pathArg, legacyPath, legacyCalc>>

\* mcpServer.ts (the legacy server), lines 276-316
McpServerExample_validatePath(root, requestedPath) ==
  LET patterns == << <<DOT, DOT>>, <<DOT, SLASH>>, <<BACKSLASH>>, <<TILDE>> >>
      hits == {i \in 1..Len(patterns) : Includes(requestedPath, patterns[i])}
      normalizedPath == normalize(requestedPath)
      resolvedPath == resolve(root, normalizedPath)
  IN IF Len(requestedPath) = 0
       THEN Err("Invalid path: path must be a non-empty string", <<>>)
     ELSE IF Len(requestedPath) > 1000
       THEN Err("Path too long (max 1000 characters)", <<>>)
     ELSE IF Includes(requestedPath, <<NUL>>)
       THEN Err("Invalid path: null bytes not allowed", <<>>)
     ELSE IF hits # {}
       THEN Err("Security violation: pattern not allowed in paths",
                patterns[CHOOSE i \in hits : \A j \in hits : i <= j])
     ELSE IF /\ ~StartsWith(resolvedPath, root \o <<SLASH>>)
             /\ resolvedPath # root
       THEN Err("Access denied: Path is outside workspace boundary", <<>>)
     ELSE IF isAbsolute(requestedPath)
       THEN Err("Absolute paths not allowed. Use paths relative to workspace",
                <<>>)
     ELSE [called |-> TRUE, ok |-> TRUE, path |-> resolvedPath]

\* the legacy server validates a path of the same workspace root
LegacyValidatePathCall ==
  /\ legacyPath = NoCall
  /\ legacyPath' = McpServerExample_validatePath(workspaceRoot, pathArg)
  /\ UNCHANGED <<workspaceRoot, pathArg, pathResult, legacyCalc>>

----------------------------------------------------------------------------
(* types/index.ts: ToolResult, BaseToolHandler *)

\* Texts are sequences of tokens; the first token of an error text is the
\* literal prefix that createErrorResult puts in front of the message.
ERROR_PREFIX == "Error: "

createSuccessResult(text) ==
  [content |-> << [type |-> "text", text |-> text] >>]

createErrorResult_noPrefix(message) ==
  [content |-> << [type |-> "text", text |-> message] >>]

createErrorResult(message) ==
  [content |-> << [type |-> "text", text |-> <<ERROR_PREFIX>> \o message] >>]

\* What one handler invocation produced.  `failed` records that an operation
\* inside the handler failed (an exception was raised or a command failed);
\* `threw` that the exception left the handler.
Returned(result, failed) == [threw |-> FALSE, result |-> result, failed |-> failed]
Threw(message) == [threw |-> TRUE, message |-> message, failed |-> TRUE]
Success(text) == Returned(createSuccessResult(text), FALSE)
Failure(message) == Returned(createErrorResult(message), TRUE)

----------------------------------------------------------------------------
(* The filesystem seen through fs/promises *)

\* largest maxFileSize explored; sizes range over 0..MaxSize+1
MaxSize == 2

OUTSIDE == <<SLASH, "e">>

Dir == [kind |-> "dir", size |-> 0, target |-> <<>>]
File(n) == [kind |-> "file", size |-> n, target |-> <<>>]

\* p is root itself or lies below it
IsWithin(p, root) ==
  \/ p = root
  \/ StartsWith(p, IF root = <<SLASH>> THEN root ELSE root \o <<SLASH>>)

\* the path the kernel reaches for p: a symbolic link on the way is followed
RealPath(f, p) ==
  LET links == {q \in DOMAIN f : f[q].kind = "link" /\ IsWithin(p, q)}
  IN IF links = {} THEN p
     ELSE LET q == CHOOSE l \in links : \A m \in links : Len(l) <= Len(m)
          IN f[q].target \o SubSeq(p, Len(q) + 1, Len(p))

Exists(f, p) == RealPath(f, p) \in DOMAIN f
Node(f, p) == f[RealPath(f, p)]

Extend(f, p, node) == [q \in DOMAIN f \cup {p} |-> IF q = p THEN node ELSE f[q]]

\* fs.mkdir(p, {recursive: true}): the directory rp once its parent is made
MkdirInto(f, rp, up) ==
  IF up.ok THEN [ok |-> TRUE, fs |-> Extend(up.fs, rp, Dir)]
  ELSE [ok |-> FALSE, fs |-> f]

\* fs.mkdir(p, {recursive: true})
RECURSIVE Mkdirp(_, _)
Mkdirp(f, p) ==
  IF RealPath(f, p) \in DOMAIN f
    THEN [ok |-> f[RealPath(f, p)].kind = "dir", fs |-> f]
  ELSE IF RealPath(f, p) = <<SLASH>>
    THEN [ok |-> TRUE, fs |-> Extend(f, <<SLASH>>, Dir)]
  ELSE MkdirInto(f, RealPath(f, p), Mkdirp(f, dirname(RealPath(f, p))))

FsCall(f, fn, p) == [fn |-> fn, path |-> p, real |-> RealPath(f, p)]

----------------------------------------------------------------------------
(* tools/FileOperationToolHandler.ts *)


\* the message of the Error validatePath throws
PathErrorText(r) ==
  IF r.error = E_SUSPICIOUS
    THEN <<"Security violation: ">> \o r.pattern \o <<" not allowed in paths">>
    ELSE <<r.error>>

\* the message of a rejected fs call: Node appends the path it was given
ErrnoText(code, fn, p) == <<code, fn, "'">> \o p \o <<"'">>

FileStep(out, log, f) == [out |-> out, log |-> log, fs |-> f]

handleRead_noSizeCheck(f, max, safePath, requestedPath) ==
  LET log1 == <<FsCall(f, "stat", safePath)>>
      log3 == Append(log1, FsCall(f, "readFile", safePath))
  IN IF ~Exists(f, safePath)
       THEN FileStep(Threw(ErrnoText("ENOENT", "stat", safePath)), log1, f)
     ELSE IF Node(f, safePath).kind # "file"
       THEN FileStep(Threw(<<"Path is not a file">>), log1, f)
     ELSE FileStep(Success(<<"Content of ">> \o requestedPath), log3, f)

\* lines 75-86; the result is the text returned or the message thrown
handleRead(f, max, safePath, requestedPath) ==
  LET log1 == <<FsCall(f, "stat", safePath)>>
      log2 == Append(log1, FsCall(f, "stat", safePath))
      log3 == Append(log2, FsCall(f, "readFile", safePath))
  IN IF ~Exists(f, safePath)
       THEN FileStep(Threw(ErrnoText("ENOENT", "stat", safePath)), log1, f)
     ELSE IF Node(f, safePath).kind # "file"
       THEN FileStep(Threw(<<"Path is not a file">>), log1, f)
     ELSE IF Node(f, safePath).size > max
       THEN FileStep(Threw(<<"File too large">>), log2, f)
     ELSE FileStep(Success(<<"Content of ">> \o requestedPath), log3, f)

\* lines 88-105
handleWrite(f, max, safePath, requestedPath, content) ==
  LET
      \* fs.writeFile(p, content)
      WriteFile(g, p, n) ==
        LET rp == RealPath(g, p)
        IN IF rp \in DOMAIN g
             THEN IF g[rp].kind = "file"
                    THEN [ok |-> TRUE, fs |-> Extend(g, rp, File(n))]
                    ELSE [ok |-> FALSE, fs |-> g]
           ELSE IF dirname(rp) \in DOMAIN g /\ g[dirname(rp)].kind = "dir"
             THEN [ok |-> TRUE, fs |-> Extend(g, rp, File(n))]
           ELSE [ok |-> FALSE, fs |-> g]
  IN
      LET parentDir == dirname(safePath)
          log1 == <<FsCall(f, "mkdir", parentDir)>>
          made == Mkdirp(f, parentDir)
          log2 == Append(log1, FsCall(made.fs, "writeFile", safePath))
          written == WriteFile(made.fs, safePath, content.length)
      IN IF ~content.present \/ content.length = 0
           THEN FileStep(Threw(<<"Content is required for write operation">>),
                         <<>>, f)
         ELSE IF content.length > max
           THEN FileStep(Threw(<<"Content too large">>), <<>>, f)
         ELSE IF ~made.ok
           THEN FileStep(Threw(ErrnoText("EEXIST", "mkdir", parentDir)), log1, f)
         ELSE IF ~written.ok
           THEN FileStep(Threw(ErrnoText("EISDIR", "open", safePath)), log2,
                         made.fs)
         ELSE FileStep(Success(<<"Successfully wrote to ">> \o requestedPath),
                       log2, written.fs)

\* lines 107-127
handleList(f, safePath, requestedPath) ==
  LET log1 == <<FsCall(f, "stat", safePath)>>
      log2 == Append(log1, FsCall(f, "readdir", safePath))
  IN IF ~Exists(f, safePath)
       THEN FileStep(Threw(ErrnoText("ENOENT", "stat", safePath)), log1, f)
     ELSE IF Node(f, safePath).kind # "dir"
       THEN FileStep(Threw(<<"Path is not a directory">>), log1, f)
     ELSE FileStep(Success(<<"Contents of ">> \o requestedPath), log2, f)

\* lines 41-73: execute, with its catch
FileOperation_execute(root, max, f, args) ==
  LET
      \* String.prototype.replace(pattern, replacement) with a string pattern:
      \* the first occurrence only
      ReplaceFirst(s, pat, rep) ==
        LET hits == {i \in 1..(Len(s) - Len(pat) + 1) :
                        \A j \in 1..Len(pat) : s[i + j - 1] = pat[j]}
        IN IF hits = {} \/ Len(pat) = 0 THEN s
           ELSE LET i == CHOOSE h \in hits : \A k \in hits : h <= k
                IN SubSeq(s, 1, i - 1) \o rep \o SubSeq(s, i + Len(pat), Len(s))
  IN
      LET vp == validatePath(root, args.path)
          body ==
            IF ~args.valid THEN FileStep(Threw(<<"ZodError">>), <<>>, f)
            ELSE IF ~vp.ok THEN FileStep(Threw(PathErrorText(vp)), <<>>, f)
            ELSE IF args.operation = "read"
              THEN handleRead(f, max, vp.path, args.path)
            ELSE IF args.operation = "write"
              THEN handleWrite(f, max, vp.path, args.path, args.content)
            ELSE handleList(f, vp.path, args.path)
      IN IF body.out.threw
           THEN FileStep(Failure(ReplaceFirst(body.out.message, root,
                                              <<"[workspace]">>)),
                         body.log, body.fs)
           ELSE body

----------------------------------------------------------------------------
(* security/SecurityManager.ts: sanitizeMathExpression *)

MaxExpressionLength == 1000
\* how many shutdown signals the process is sent
MaxSignals == 2

\* how many loadConfig calls are made on the singleton
MaxLoads == 3

MaxOperators_oneMore == 100 + 1

MaxOperators == 100

SPACE == " "
Digits == {"0", "1", "2", "3", "4", "5", "6", "7", "8", "9"}
Operators == {"+", "-", "*", "/"}
MathChars == Digits \cup Operators \cup {"(", ")", DOT}

\* expression.replace(/\s/g, '')
RECURSIVE StripSpaces(_)
StripSpaces(e) ==
  IF Len(e) = 0 THEN <<>>
  ELSE IF Len(e) = 1 THEN (IF e[1] = SPACE THEN <<>> ELSE e)
  ELSE StripSpaces(SubSeq(e, 1, Len(e) \div 2))
         \o StripSpaces(SubSeq(e, Len(e) \div 2 + 1, Len(e)))

\* the running parenthesis count after the first k characters
ParenCount(e, k) ==
  Cardinality({i \in 1..k : e[i] = "("}) - Cardinality({i \in 1..k : e[i] = ")"})

sanitizeMathExpression_noWhitelist(expression) ==
  LET sanitized == StripSpaces(expression)
      bad(m) == [ok |-> FALSE, error |-> m]
  IN IF Len(expression) > MaxExpressionLength
       THEN bad("Expression too long (max 1000 characters)")
     ELSE IF Includes(sanitized, <<DOT, DOT>>)
       THEN bad("Invalid expression pattern")
     ELSE [ok |-> TRUE, value |-> sanitized]

\* lines 74-113
sanitizeMathExpression(expression) ==
  LET sanitized == StripSpaces(expression)
      operatorCount == Cardinality({i \in 1..Len(sanitized) :
                                       sanitized[i] \in Operators})
      bad(m) == [ok |-> FALSE, error |-> m]
  IN IF Len(expression) > MaxExpressionLength
       THEN bad("Expression too long (max 1000 characters)")
     ELSE IF Len(sanitized) = 0 \/ \E i \in 1..Len(sanitized) :
                                       sanitized[i] \notin MathChars
       THEN bad("Expression contains invalid characters")
     ELSE IF Includes(sanitized, <<DOT, DOT>>)
       THEN bad("Invalid expression pattern")
     ELSE IF operatorCount > MaxOperators
       THEN bad("Expression too complex (max 100 operations)")
     ELSE IF \/ \E k \in 1..Len(sanitized) : ParenCount(sanitized, k) < 0
             \/ ParenCount(sanitized, Len(sanitized)) # 0
       THEN bad("Unbalanced parentheses")
     ELSE [ok |-> TRUE, value |-> sanitized]

----------------------------------------------------------------------------
(* The tool handlers' execute methods.  `env` is what the world outside the
   handler does with the call: how eval, exec and Intl answer. *)

ZOD_ERROR == "ZodError"

\* tools/TimeToolHandler.ts lines 26-42
Time_execute(args) ==
  LET timezone == IF args.timezone = "absent" THEN "UTC" ELSE args.timezone
  IN IF ~args.valid
       THEN Failure(<<"Failed to get time: ", ZOD_ERROR>>)
     ELSE IF timezone # "UTC" /\ timezone \notin {"UTC", "Asia/Tokyo"}
       THEN Failure(<<"Failed to get time: ", "Invalid time zone specified">>)
     ELSE Success(<<"Current time in ", timezone>>)

\* tools/CalculateToolHandler.ts lines 28-51; env is eval's answer
Calculate_execute(args, env) ==
  LET san == sanitizeMathExpression(args.expression)
  IN IF ~args.valid THEN Failure(<<ZOD_ERROR>>)
     ELSE IF ~san.ok THEN Failure(<<san.error>>)
     ELSE IF env = "throws" THEN Failure(<<"SyntaxError">>)
     ELSE IF env = "nonfinite"
       THEN Failure(<<"Result is not a finite number">>)
     ELSE Success(args.expression \o <<" = ", "result">>)

\* length of the expressions enumerated in full
MaxExprLen == 3

NoCalc == [called |-> FALSE]

CalcIdle ==
  /\ calcArg = [valid |-> FALSE]
  /\ calcResult = NoCalc

\* tools/CalculateToolHandler.ts lines 28-51, called once
CalculateCall(env) ==
  LET
      \* tools/CalculateToolHandler.ts line 36: the string handed to eval, if the
      \* call gets that far
      Calculate_evalInput(args) ==
        IF args.valid /\ sanitizeMathExpression(args.expression).ok
          THEN [reached |-> TRUE,
                code |-> sanitizeMathExpression(args.expression).value]
          ELSE [reached |-> FALSE, code |-> <<>>]
  IN
      /\ calcResult = NoCalc
      /\ calcResult' = [called |-> TRUE,
                        out |-> Calculate_execute(calcArg, env),
                        eval |-> Calculate_evalInput(calcArg)]
      /\ UNCHANGED calcArg

\* mcpServer.ts (the legacy server), lines 191-234 of handleCalculate: the
\* checks between the schema and eval, giving the string to evaluate
McpServerExample_sanitize(expression) ==
  LET sanitizedExpression == SelectSeq(expression, LAMBDA ch : ch # SPACE)
      validPattern(str) ==
        /\ Len(str) >= 1
        /\ \A i \in 1..Len(str) :
             str[i] \in Digits \cup {"+", "-", "*", "/", "(", ")", DOT}
      operatorCount ==
        Cardinality({i \in 1..Len(sanitizedExpression) :
                       sanitizedExpression[i] \in {"+", "-", "*", "/"}})
      bad(m) == [ok |-> FALSE, error |-> m]
  IN IF Len(expression) > 1000
       THEN bad("Expression too long (max 1000 characters)")
     ELSE IF ~validPattern(sanitizedExpression)
       THEN bad("Expression contains invalid characters. Only numbers and +, -, *, /, (, ) are allowed")
     ELSE IF Includes(sanitizedExpression, <<DOT, DOT>>)
       THEN bad("Invalid expression pattern")
     ELSE IF operatorCount > 100
       THEN bad("Expression too complex (max 100 operations)")
     ELSE IF \/ \E k \in 1..Len(sanitizedExpression) :
                  ParenCount(sanitizedExpression, k) < 0
             \/ ParenCount(sanitizedExpression, Len(sanitizedExpression)) # 0
       THEN bad("Unbalanced parentheses")
     ELSE [ok |-> TRUE, value |-> sanitizedExpression]

\* the legacy handleCalculate up to its eval (line 238)
LegacyCalculateCall ==
  /\ legacyCalc = NoCall
  /\ legacyCalc' =
       [called |-> TRUE,
        eval |-> IF calcArg.valid
                      /\ McpServerExample_sanitize(calcArg.expression).ok
                   THEN [reached |-> TRUE,
                         code |-> McpServerExample_sanitize(
                                    calcArg.expression).value]
                   ELSE [reached |-> FALSE, code |-> <<>>]]
  /\ UNCHANGED <<workspaceRoot, pathArg, pathResult, legacyPath>>

\* tools/SystemInfoToolHandler.ts (part_006) lines 93-123; env is the set of commands
\* that fail when executed
SystemInfo_execute(args, env) ==
  LET
      \* tools/SystemInfoToolHandler.ts (part_006) lines 125-142: every command is run in its
      \* own try/catch and a failing one becomes an "Error: ..." line of its section
      getAllSystemInfo(failing) ==
        LET Section(t) == IF t \in failing
                            THEN <<"=== ", t, " ===", "Error: ", "Command failed">>
                            ELSE <<"=== ", t, " ===", "stdout">>
        IN Returned(createSuccessResult(
                      <<"Complete System Information:">>
                        \o Section("os") \o Section("cpu") \o Section("memory")
                        \o Section("disk") \o Section("network")),
                    failing # {})
  IN
      IF ~args.valid THEN Failure(<<ZOD_ERROR>>)
      ELSE IF args.type = "all" THEN getAllSystemInfo(env)
      ELSE IF args.type \in env THEN Failure(<<"Command failed">>)
      ELSE Success(<<"System ", args.type, " information:">>)

\* tools/GitToolHandler.ts lines 43-108; env is how the git command ends
Git_execute(args, env) ==
  IF ~args.valid
    THEN Failure(<<"Git operation failed: ", ZOD_ERROR>>)
  ELSE IF args.operation = "commit" /\ args.message \in {"absent", ""}
    THEN Failure(<<"Git operation failed: ",
                   "Commit message is required for commit operation">>)
  ELSE IF env = "notrepo"
    THEN Failure(<<"This directory is not a Git repository.">>)
  ELSE IF env = "fail"
    THEN Failure(<<"Git operation failed: ", "Command failed">>)
  ELSE Success(<<"Git ", args.operation, " result:">>)

\* the optional pid argument
NoPid == [given |-> FALSE, value |-> 0]
Pid(n) == [given |-> TRUE, value |-> n]

allowedSignals == {"TERM", "KILL", "HUP", "INT", "QUIT", "USR1", "USR2"}
criticalPids == {1, 2}
MaxPid == 999999

killProcess_noLookupCheck(pid, signal, env) ==
  LET no(m) == [out |-> Failure(<<m>>), killed |-> FALSE]
  IN IF ~pid.given \/ pid.value = 0
       THEN no("Process ID (pid) is required for kill operation")
     ELSE IF pid.value <= 0 \/ pid.value > MaxPid
       THEN no("Invalid process ID")
     ELSE IF signal \notin allowedSignals THEN no("Invalid signal")
     ELSE IF pid.value \in criticalPids
       THEN no("Cannot kill critical system processes")
     ELSE IF env.ps = "fail" THEN no("Command failed: ps")
     ELSE IF env.kill = "nosuch"
       THEN [out |-> Failure(<<"Process not found or already terminated">>),
             killed |-> TRUE]
     ELSE IF env.kill = "fail"
       THEN [out |-> Failure(<<"Command failed: kill">>), killed |-> TRUE]
     ELSE [out |-> Success(<<"Successfully sent ", signal, " signal">>),
           killed |-> TRUE]

\* tools/ProcessToolHandler.ts lines 107-151; env.ps is what the ps lookup
\* gives ("found", "header" for a header line only, "fail"), env.kill how the
\* kill command ends.  killed tells whether the kill command was executed.
killProcess(pid, signal, env) ==
  LET no(m) == [out |-> Failure(<<m>>), killed |-> FALSE]
  IN IF ~pid.given \/ pid.value = 0
       THEN no("Process ID (pid) is required for kill operation")
     ELSE IF pid.value <= 0 \/ pid.value > MaxPid
       THEN no("Invalid process ID")
     ELSE IF signal \notin allowedSignals THEN no("Invalid signal")
     ELSE IF pid.value \in criticalPids
       THEN no("Cannot kill critical system processes")
     ELSE IF env.ps = "fail" THEN no("Command failed: ps")
     ELSE IF env.ps = "header" THEN no("Process not found")
     ELSE IF env.kill = "nosuch"
       THEN [out |-> Failure(<<"Process not found or already terminated">>),
             killed |-> TRUE]
     ELSE IF env.kill = "fail"
       THEN [out |-> Failure(<<"Command failed: kill">>), killed |-> TRUE]
     ELSE [out |-> Success(<<"Successfully sent ", signal, " signal">>),
           killed |-> TRUE]

\* tools/ProcessToolHandler.ts lines 49-105
Process_execute(args, env) ==
  LET signal == IF args.signal = "absent" THEN "TERM" ELSE args.signal
  IN IF ~args.valid THEN Failure(<<ZOD_ERROR>>)
     ELSE IF args.operation = "kill"
       THEN killProcess(args.pid, signal, env).out
     ELSE IF env.ps = "fail" THEN Failure(<<"Command failed: ps">>)
     ELSE IF args.operation = "info" /\ env.ps = "header"
       THEN Success(<<"No processes found matching: ">>)
     ELSE Success(<<"Process ", args.operation>>)


----------------------------------------------------------------------------
(* The command lines GitToolHandler and ProcessToolHandler hand to exec.
   A command line is a sequence of tokens: the text the handler writes is
   kept in multi-character tokens, every character that comes from the
   request is a token of its own. *)

DQUOTE == "\""
\* the token standing for the backquote character
DangerousChars == {";", "&", "|", "BACKTICK", "$", "(", ")"}

\* an optional string argument
NoStr == [given |-> FALSE, value |-> <<>>]
Str(s) == [given |-> TRUE, value |-> s]

\* s.replace(/[...]/g, '') with the character class DangerousChars
StripDangerous(s) == SelectSeq(s, LAMBDA c : c \notin DangerousChars)

\* message.replace(/"/g, '\\"')
RECURSIVE EscapeQuotes(_)
EscapeQuotes(s) ==
  IF Len(s) = 0 THEN <<>>
  ELSE (IF s[1] = DQUOTE THEN <<BACKSLASH, DQUOTE>> ELSE <<s[1]>>)
         \o EscapeQuotes(Tail(s))

\* additionalArgs.filter(nonempty).map(strip).join(' ')
RECURSIVE JoinArgs(_)
JoinArgs(list) ==
  IF Len(list) = 0 THEN <<>>
  ELSE IF Len(list) = 1 THEN StripDangerous(list[1])
  ELSE StripDangerous(list[1]) \o <<SPACE>> \o JoinArgs(Tail(list))

NoCommands == <<>>

\* tools/GitToolHandler.ts lines 43-83: the commands execute runs
Git_commands(args) ==
  LET sanitizedArgs ==
        JoinArgs(SelectSeq(args.args, LAMBDA a : Len(a) > 0))
      special ==
        CASE args.operation = "commit" ->
               <<" -m \"">> \o EscapeQuotes(args.message.value) \o <<"\"">>
          [] args.operation = "log" -> <<" --oneline -10">>
          [] args.operation = "diff" -> <<" --stat">>
          [] OTHER -> <<>>
  IN IF ~args.valid THEN NoCommands
     ELSE IF args.operation = "commit"
             /\ (~args.message.given \/ args.message.value = <<>>)
       THEN NoCommands
     ELSE << <<"git ", args.operation>> \o special
               \o (IF Len(sanitizedArgs) > 0
                     THEN <<SPACE>> \o sanitizedArgs ELSE <<>>) >>

\* tools/ProcessToolHandler.ts lines 49-68: the commands execute runs
Process_commands(args, env) ==
  LET
      \* tools/ProcessToolHandler.ts lines 107-141: the ps lookup runs once the
      \* argument checks pass, the kill command once the lookup found the process
      killProcess_commands(pid, signal, e) ==
        LET checked == /\ pid.given /\ pid.value # 0
                       /\ pid.value > 0 /\ pid.value <= MaxPid
                       /\ signal \in allowedSignals
                       /\ pid.value \notin criticalPids
            lookup == <<"ps -p ", ToString(pid.value), " -o pid,ppid,cmd">>
        IN IF ~checked THEN NoCommands
           ELSE IF killProcess(pid, signal, e).killed
             THEN <<lookup, <<"kill -", signal, " ", ToString(pid.value)>>>>
           ELSE <<lookup>>
  IN
      LET
          \* tools/ProcessToolHandler.ts lines 90-94; line 58 passes filter || 'node'
          getProcessInfo_command(filter) ==
            <<"ps aux | grep \"">>
              \o StripDangerous(IF filter.given /\ filter.value # <<>>
                                  THEN filter.value ELSE <<"n", "o", "d", "e">>)
              \o <<"\" | grep -v grep">>
      IN
          LET
              \* tools/ProcessToolHandler.ts lines 70-88
              listProcesses_command(filter) ==
                IF filter.given /\ filter.value # <<>>
                  THEN <<"ps aux | grep \"">> \o StripDangerous(filter.value)
                         \o <<"\" | grep -v grep | head -10">>
                  ELSE <<"ps aux --sort=-%cpu | head -20">>
          IN
              IF ~args.valid THEN NoCommands
              ELSE IF args.operation = "list" THEN <<listProcesses_command(args.filter)>>
              ELSE IF args.operation = "info" THEN <<getProcessInfo_command(args.filter)>>
              ELSE killProcess_commands(args.pid,
                                        IF args.signal = "absent" THEN "TERM"
                                        ELSE args.signal, env)

----------------------------------------------------------------------------

(* ModularMcpServer.ts *)

\* the six tools the README documents
DocumentedTools ==
  {"get_time", "calculate", "file_operation", "system_info", "git", "process"}

\* lines 45-49: the factories initializeTools knows, by tool name
availableTools ==
  [t \in {"get_time", "calculate", "file_operation"} |->
     CASE t = "get_time" -> "TimeToolHandler"
       [] t = "calculate" -> "CalculateToolHandler"
       [] t = "file_operation" -> "FileOperationToolHandler"]

\* the handler class that implements each documented tool
HandlerOf ==
  [t \in DocumentedTools |->
     CASE t = "get_time" -> "TimeToolHandler"
       [] t = "calculate" -> "CalculateToolHandler"
       [] t = "file_operation" -> "FileOperationToolHandler"
       [] t = "system_info" -> "SystemInfoToolHandler"
       [] t = "git" -> "GitToolHandler"
       [] t = "process" -> "ProcessToolHandler"]

\* lines 44-61: names without a factory are skipped with a warning
\* availableTools is an object literal, so a lookup also finds what the
\* literal inherits from Object.prototype: "constructor" is the function
\* Object, which is truthy and, called as the factory, returns an empty
\* object; "__proto__" is Object.prototype itself, truthy but not callable.
initializeTools(enabled) ==
  [t \in enabled \cap (DOMAIN availableTools \cup {"constructor"}) |->
     IF t = "constructor" THEN "Object" ELSE availableTools[t]]

\* the call toolFactory() of line 54 raises a TypeError
initializeTools_throws(enabled) == "__proto__" \in enabled

\* handler.name: the built-in handlers carry the name they are enabled
\* under, a handler of the caller ("CallerTimeHandler") carries the name
\* its author chose, and an empty object has no name at all
HandlerName(class) ==
  CASE class = "CallerTimeHandler" -> "get_time"
    [] class = "Object" -> "undefined"
    [] OTHER -> CHOOSE t \in DocumentedTools : HandlerOf[t] = class

\* ---- request arguments ----
Invalid == [valid |-> FALSE]

CalcEnvs == {"finite", "nonfinite", "throws"}

FilePaths ==
  { <<"a">>, <<DOT>>, <<"a", SLASH, "w">>, <<DOT, DOT>>, OUTSIDE, <<>> }

GitEnvs == {"ok", "fail", "notrepo"}

NoEnv == "none"

ArgsFor(class, max) ==
  CASE class = "TimeToolHandler" ->
         {Invalid} \cup
         [valid : {TRUE},
          timezone : {"absent", "Asia/Tokyo", "Nowhere/Bogus"}]
    [] class = "CalculateToolHandler" ->
         {Invalid} \cup
         [valid : {TRUE},
          expression : { <<"1", SPACE, "+", "1">>, <<"(", "1">>,
                         <<"1", DOT, DOT, "2">>, <<"a">> }]
    [] class = "FileOperationToolHandler" ->
         {Invalid} \cup
         [valid : {TRUE}, operation : {"read", "list"}, path : FilePaths,
          content : {[present |-> FALSE, length |-> 0]}] \cup
         [valid : {TRUE}, operation : {"write"}, path : FilePaths,
          content : {[present |-> FALSE, length |-> 0]} \cup
                    [present : {TRUE}, length : {max, max + 1}]]
    [] class = "SystemInfoToolHandler" ->
         {Invalid} \cup [valid : {TRUE}, type : {"os", "cpu", "all"}]
    [] class = "GitToolHandler" ->
         {Invalid} \cup
         [valid : {TRUE}, operation : {"status"}, message : {"absent"}] \cup
         [valid : {TRUE}, operation : {"commit"},
          message : {"absent", "msg"}]
    [] class = "ProcessToolHandler" ->
         {Invalid} \cup
         [valid : {TRUE}, operation : {"list", "info"}, pid : {NoPid},
          signal : {"absent"}] \cup
         [valid : {TRUE}, operation : {"kill"},
          pid : {NoPid} \cup {Pid(n) : n \in {-1, 1, 5, MaxPid + 1}},
          signal : {"absent"}] \cup
         [valid : {TRUE}, operation : {"kill"}, pid : {Pid(5)},
          signal : {"STOP"}]

EnvsFor(class) ==
  CASE class = "TimeToolHandler" -> {NoEnv}
    [] class = "CalculateToolHandler" -> CalcEnvs
    [] class = "FileOperationToolHandler" -> {NoEnv}
    [] class = "SystemInfoToolHandler" -> { {}, {"os", "disk"} }
    [] class = "GitToolHandler" -> GitEnvs
    [] class = "ProcessToolHandler" ->
         { [ps |-> "found", kill |-> "ok"],
           [ps |-> "found", kill |-> "nosuch"],
           [ps |-> "header", kill |-> "ok"], [ps |-> "fail", kill |-> "ok"] }

\* handler.execute(args) of the given class: the outcome, the fs calls made
\* and the filesystem afterwards
Execute(class, args, env) ==
  CASE class = "TimeToolHandler" -> FileStep(Time_execute(args), <<>>, fs)
    [] class = "CalculateToolHandler" ->
         FileStep(Calculate_execute(args, env), <<>>, fs)
    [] class = "FileOperationToolHandler" ->
         FileOperation_execute(workspaceRoot, maxFileSize, fs, args)
    [] class = "SystemInfoToolHandler" ->
         FileStep(SystemInfo_execute(args, env), <<>>, fs)
    [] class = "GitToolHandler" -> FileStep(Git_execute(args, env), <<>>, fs)
    [] class = "ProcessToolHandler" ->
         FileStep(Process_execute(args, env), <<>>, fs)
    [] class = "CallerTimeHandler" ->
         FileStep(Success(<<"caller time">>), <<>>, fs)
    \* an empty object: handler.execute(args) raises a TypeError, which the
    \* catch of the request handler turns into an error text
    [] class = "Object" ->
         FileStep(Failure(<<"handler.execute is not a function">>), <<>>, fs)

\* lines 65-74: the tools/list handler
ListTools ==
  /\ lastRequest' = [kind |-> "list"]
  /\ lastResult' = [kind |-> "list",
                    tools |-> {HandlerName(toolHandlers[k]) :
                                 k \in DOMAIN toolHandlers}]
  /\ fsLog' = <<>>
  /\ UNCHANGED <<maxFileSize, fs, enabledTools, toolHandlers>>

\* lines 77-110: the tools/call handler
CallTool(name, args, env) ==
  /\ lastRequest' = [kind |-> "call", name |-> name, args |-> args]
  /\ IF name \in DOMAIN toolHandlers
       THEN LET r == Execute(toolHandlers[name], args, env)
            IN /\ lastResult' = [kind |-> "call", out |-> r.out,
                                 handler |-> toolHandlers[name]]
               /\ fsLog' = r.log
               /\ fs' = r.fs
       ELSE /\ lastResult' =
                 [kind |-> "call",
                  out |-> Failure(<<"Unknown tool: ", name>>),
                  handler |-> "none"]
            /\ fsLog' = <<>>
            /\ UNCHANGED fs
  /\ UNCHANGED <<maxFileSize, enabledTools, toolHandlers>>

\* execute of a handler the server never registers, invoked on its own
ExecuteHandler(class, args, env) ==
  /\ lastRequest' = [kind |-> "execute", name |-> class, args |-> args]
  /\ LET r == Execute(class, args, env)
     IN /\ lastResult' = [kind |-> "call", out |-> r.out, handler |-> class]
        /\ fsLog' = r.log
        /\ fs' = r.fs
  /\ UNCHANGED <<maxFileSize, enabledTools, toolHandlers>>

----------------------------------------------------------------------------
(* config/ConfigManager.ts.  JSON and environment values carry their type:
   [t |-> type, v |-> value]; a string is a sequence of tokens, the empty
   string the empty sequence.  A setting is named section.key. *)

Undef == [t |-> "undefined", v |-> 0]
S(x) == [t |-> "string", v |-> x]
N(n) == [t |-> "number", v |-> n]
B(b) == [t |-> "boolean", v |-> b]
A(x) == [t |-> "array", v |-> x]

Settings ==
  { "security.workspaceRoot", "security.maxFileSize",
    "security.strictPathValidation", "security.allowAbsolutePaths",
    "security.allowedOperations",
    "mcp.name", "mcp.version", "mcp.port", "mcp.logLevel",
    "github.personalAccessToken", "github.toolsets", "github.readOnly" }

\* process.cwd()
Cwd == <<SLASH, "w">>

\* JavaScript truthiness of an environment value
Truthy(x) == x.t = "string" /\ x.v # <<>>

RECURSIVE DigitsValue(_)
DigitsValue(s) ==
  LET
      DigitValue(d) ==
        CASE d = "0" -> 0 [] d = "1" -> 1 [] d = "2" -> 2 [] d = "3" -> 3
          [] d = "4" -> 4 [] d = "5" -> 5 [] d = "6" -> 6 [] d = "7" -> 7
          [] d = "8" -> 8 [] d = "9" -> 9
  IN
      IF Len(s) = 0 THEN 0
      ELSE 10 * DigitsValue(SubSeq(s, 1, Len(s) - 1)) + DigitValue(s[Len(s)])

\* parseInt(s): an optional sign and the leading digits; NaN without digits
parseInt(s) ==
  LET
      \* length of the longest prefix of s made of digits
      DigitPrefix(d) ==
        LET stops == {i \in 1..Len(d) : d[i] \notin Digits}
        IN IF stops = {} THEN Len(d)
           ELSE (CHOOSE i \in stops : \A j \in stops : i <= j) - 1
  IN
      LET neg == Len(s) > 0 /\ s[1] = "-"
          body == IF Len(s) > 0 /\ s[1] \in {"-", "+"} THEN Tail(s) ELSE s
          k == DigitPrefix(body)
      IN IF k = 0 THEN [t |-> "NaN", v |-> 0]
         ELSE N((IF neg THEN -1 ELSE 1) * DigitsValue(SubSeq(body, 1, k)))

\* String.prototype.split(','), cur being the item collected so far
RECURSIVE SplitComma(_, _)
SplitComma(s, cur) ==
  IF Len(s) = 0 THEN <<cur>>
  ELSE IF s[1] = "," THEN <<cur>> \o SplitComma(Tail(s), <<>>)
  ELSE SplitComma(Tail(s), Append(cur, s[1]))

\* lines 58-80: the value rawConfig gives a setting before the file's keys
\* are spread over it; e is the setting's environment variable
FromEnvironment(s, e) ==
  CASE s = "security.workspaceRoot" -> IF Truthy(e) THEN e ELSE S(Cwd)
    [] s \in {"security.maxFileSize", "mcp.port"} ->
         IF Truthy(e) THEN parseInt(e.v) ELSE Undef
    [] s \in {"security.strictPathValidation", "security.allowAbsolutePaths",
              "github.readOnly"} -> B(e = S(<<"true">>))
    [] s = "security.allowedOperations" ->
         IF e.t = "string" THEN A(SplitComma(e.v, <<>>)) ELSE A(<<>>)
    [] OTHER -> e

rawConfig(env, file) ==
  LET
      \* ...fileConfig.section after the environment's values: a key the
      \* file holds replaces what was there
      Spread(fromEnv, fromFile) ==
        IF fromFile.t # "undefined" THEN fromFile ELSE fromEnv
  IN
      [s \in Settings |-> Spread(FromEnvironment(s, env[s]), file[s])]

Invalid_setting == [t |-> "invalid", v |-> 0]

\* lines 5-24: what the zod schema makes of one raw value
SchemaParse(s, x) ==
  LET default(d) == IF x.t = "undefined" THEN d ELSE Invalid_setting
      string(d) == IF x.t = "string" THEN x ELSE default(d)
      boolean(d) == IF x.t = "boolean" THEN x ELSE default(d)
      positive(d) == IF x.t = "number" /\ x.v > 0 THEN x
                     ELSE IF x.t = "number" THEN Invalid_setting
                     ELSE default(d)
  IN CASE s = "security.workspaceRoot" ->
            IF x.t = "string" /\ x.v # <<>> THEN x ELSE Invalid_setting
       [] s = "security.maxFileSize" -> positive(N(10 * 1024 * 1024))
       [] s = "security.strictPathValidation" -> boolean(B(TRUE))
       [] s = "security.allowAbsolutePaths" -> boolean(B(FALSE))
       [] s = "security.allowedOperations" ->
            IF x.t = "array" THEN x ELSE default(A(<<>>))
       [] s = "mcp.name" -> string(S(<<"hacker-logic-mcp-server">>))
       [] s = "mcp.version" -> string(S(<<"1.0.0">>))
       [] s = "mcp.port" -> positive(N(3000))
       [] s = "mcp.logLevel" ->
            IF x \in {S(<<"error">>), S(<<"warn">>), S(<<"info">>),
                       S(<<"debug">>)} THEN x
            ELSE default(S(<<"info">>))
       [] s = "github.personalAccessToken" -> string(Undef)
       [] s = "github.toolsets" -> string(S(<<>>))
       [] s = "github.readOnly" -> boolean(B(TRUE))

\* lines 45-96 after the cache test: the configuration, or the error thrown
loadConfig(env, file) ==
  LET parsed == [s \in Settings |-> SchemaParse(s, rawConfig(env, file)[s])]
  IN IF \E s \in Settings : parsed[s] = Invalid_setting
       THEN [ok |-> FALSE, config |-> <<>>]
       ELSE [ok |-> TRUE, config |-> parsed]

\* path.relative(from, to) (POSIX) for absolute, normalised paths
relative(from, to) ==
  LET f == IF from = <<SLASH>> THEN <<>> ELSE Tail(Split(from))
      g == IF to = <<SLASH>> THEN <<>> ELSE Tail(Split(to))
      common == {k \in 0..Len(f) :
                   k <= Len(g) /\ \A i \in 1..k : f[i] = g[i]}
      n == CHOOSE k \in common : \A j \in common : j <= k
  IN Join([i \in 1..(Len(f) - n) |-> <<DOT, DOT>>]
            \o SubSeq(g, n + 1, Len(g)))

\* lines 162-168
getRelativePath(absolutePath) ==
  IF StartsWith(absolutePath, Cwd)
    THEN <<DOT, SLASH>> \o relative(Cwd, absolutePath)
    ELSE <<"[EXTERNAL_PATH]">>

getSanitizedConfig_copyGithub(config) ==
  [security |->
     [workspaceRoot |-> getRelativePath(config["security.workspaceRoot"].v),
      maxFileSize |-> config["security.maxFileSize"],
      strictPathValidation |-> config["security.strictPathValidation"],
      allowAbsolutePaths |-> config["security.allowAbsolutePaths"],
      allowedOperations |-> config["security.allowedOperations"]],
   mcp |->
     [name |-> config["mcp.name"], version |-> config["mcp.version"],
      port |-> config["mcp.port"], logLevel |-> config["mcp.logLevel"]],
   github |->
     [hasToken |-> config["github.personalAccessToken"],
      toolsets |-> config["github.toolsets"],
      readOnly |-> config["github.readOnly"]]]

\* lines 143-160, for a loaded configuration
getSanitizedConfig(config) ==
  [security |->
     [workspaceRoot |-> getRelativePath(config["security.workspaceRoot"].v),
      maxFileSize |-> config["security.maxFileSize"],
      strictPathValidation |-> config["security.strictPathValidation"],
      allowAbsolutePaths |-> config["security.allowAbsolutePaths"],
      allowedOperations |-> config["security.allowedOperations"]],
   mcp |->
     [name |-> config["mcp.name"], version |-> config["mcp.version"],
      port |-> config["mcp.port"], logLevel |-> config["mcp.logLevel"]],
   github |->
     [hasToken |-> Truthy(config["github.personalAccessToken"]),
      toolsets |-> config["github.toolsets"],
      readOnly |-> config["github.readOnly"]]]

NothingSet == [s \in Settings |-> Undef]

TOKEN == "github.personalAccessToken"

NotLoaded == [loaded |-> FALSE, failed |-> FALSE]

NoOutput == [called |-> FALSE]

\* one loadConfig call: where it stands, its configPath, the environment
\* it read, the calls that had returned when it was made, and what it
\* returned or threw
NoLoad ==
  [pc |-> "idle", path |-> "none", env |-> NothingSet, after |-> {},
   cached |-> FALSE, config |-> NothingSet, message |-> <<>>]

CfgIdle ==
  /\ cfgIn = [env |-> NothingSet, file |-> NothingSet]
  /\ cfgLoaded = NotLoaded
  /\ cfgSanitized = NoOutput
  /\ loadCalls = [c \in 1..MaxLoads |-> NoLoad]
  /\ configFiles = [p \in {"a.json", "b.json"} |-> [kind |-> "ENOENT"]]
  /\ gotConfig = [called |-> FALSE]

\* lines 45-96: a loaded configuration is kept, a failed load leaves null
LoadConfigCall ==
  /\ ~cfgLoaded.loaded
  /\ ~cfgLoaded.failed
  /\ cfgLoaded' =
       IF loadConfig(cfgIn.env, cfgIn.file).ok
         THEN [loaded |-> TRUE, failed |-> FALSE,
               value |-> loadConfig(cfgIn.env, cfgIn.file).config]
         ELSE [loaded |-> FALSE, failed |-> TRUE]
  /\ UNCHANGED <<cfgIn, cfgSanitized>>

\* lines 120-131: what loadFromFile makes of the outcome of fs.readFile; a
\* file that is missing counts as {}, any other failure, of readFile or of
\* JSON.parse, is thrown on
loadFromFile(outcome) ==
  CASE outcome.kind = "json" -> [ok |-> TRUE, file |-> outcome.content]
    [] outcome.kind = "ENOENT" -> [ok |-> TRUE, file |-> NothingSet]
    [] OTHER -> [ok |-> FALSE, file |-> NothingSet]

\* lines 58-95 of call c, whose record so far is call: the merge and the
\* validation, then the assignment to this.config, or the error thrown
LoadSettles(c, call, read) ==
  LET r == IF read.ok THEN loadConfig(call.env, read.file)
           ELSE [ok |-> FALSE, config |-> <<>>]
  IN IF r.ok
       THEN /\ cfgLoaded' = [loaded |-> TRUE, failed |-> FALSE,
                             value |-> r.config]
            /\ loadCalls' = [loadCalls EXCEPT ![c] =
                               [call EXCEPT !.pc = "returned",
                                            !.config = r.config]]
       ELSE /\ UNCHANGED cfgLoaded
            /\ loadCalls' = [loadCalls EXCEPT ![c] =
                               [call EXCEPT !.pc = "threw",
                                  !.message = <<"Configuration error: ",
                                                IF read.ok THEN "ZodError"
                                                ELSE "readFile">>]]

\* lines 45-55: loadConfig(path) is called.  With a configuration in
\* this.config the call returns it; without a configPath it runs to its
\* end at once; otherwise it reads the environment and waits for the file.
LoadConfigStart(c, path) ==
  /\ loadCalls[c].pc = "idle"
  /\ \A d \in 1..(c - 1) : loadCalls[d].pc # "idle"
  /\ LET call == [NoLoad EXCEPT
                    !.path = path,
                    !.after = {d \in 1..MaxLoads :
                                 loadCalls[d].pc = "returned"}]
     IN IF cfgLoaded.loaded
          THEN /\ loadCalls' = [loadCalls EXCEPT ![c] =
                                  [call EXCEPT !.pc = "returned",
                                               !.cached = TRUE,
                                               !.config = cfgLoaded.value]]
               /\ UNCHANGED cfgLoaded
        ELSE IF path = "none"
          THEN LoadSettles(c, [call EXCEPT !.env = cfgIn.env],
                           [ok |-> TRUE, file |-> NothingSet])
        ELSE /\ loadCalls' = [loadCalls EXCEPT ![c] =
                                [call EXCEPT !.pc = "reading",
                                             !.env = cfgIn.env]]
             /\ UNCHANGED cfgLoaded
  /\ UNCHANGED <<cfgIn, cfgSanitized, configFiles, gotConfig>>

\* line 55 onwards: the file has been read and the call goes on
LoadConfigResume(c) ==
  /\ loadCalls[c].pc = "reading"
  /\ LoadSettles(c, loadCalls[c],
                 loadFromFile(configFiles[loadCalls[c].path]))
  /\ UNCHANGED <<cfgIn, cfgSanitized, configFiles, gotConfig>>

\* lines 133-138; after: the calls that had returned by then
GetConfigCall ==
  /\ gotConfig' =
       IF cfgLoaded.loaded
         THEN [called |-> TRUE, threw |-> FALSE, config |-> cfgLoaded.value,
               message |-> <<>>,
               after |-> {d \in 1..MaxLoads : loadCalls[d].pc = "returned"}]
         ELSE [called |-> TRUE, threw |-> TRUE, config |-> NothingSet,
               message |-> <<"Configuration not loaded",
                             ". Call loadConfig() first.">>,
               after |-> {d \in 1..MaxLoads : loadCalls[d].pc = "returned"}]
  /\ UNCHANGED <<cfgIn, cfgLoaded, cfgSanitized, loadCalls, configFiles>>

\* process.env changes between two calls
SetEnv(env) ==
  /\ cfgIn.env # env
  /\ cfgIn' = [cfgIn EXCEPT !.env = env]
  /\ UNCHANGED <<cfgLoaded, cfgSanitized, loadCalls, configFiles, gotConfig>>

\* lines 143-160
GetSanitizedConfigCall ==
  /\ cfgSanitized = NoOutput
  /\ cfgSanitized' =
       IF cfgLoaded.loaded
         THEN [called |-> TRUE, empty |-> FALSE,
               value |-> getSanitizedConfig(cfgLoaded.value)]
         ELSE [called |-> TRUE, empty |-> TRUE]
  /\ UNCHANGED <<cfgIn, cfgLoaded>>

----------------------------------------------------------------------------

(* Requests to the git and process tools, with strings spelled out *)

\* length of the strings enumerated in full
MaxArgLen == 2

NoRun == [called |-> FALSE]

ShellIdle ==
  /\ shellReq = [tool |-> "none"]
  /\ shellRun = NoRun

\* tools/GitToolHandler.ts lines 43-108, called once
GitCall(env) ==
  LET
      \* the request as Git_execute reads it: whether a message is there
      GitAbstract(args) ==
        IF ~args.valid THEN Invalid
        ELSE [valid |-> TRUE, operation |-> args.operation,
              message |-> IF ~args.message.given THEN "absent"
                          ELSE IF args.message.value = <<>> THEN "" ELSE "msg"]
  IN
      /\ shellRun = NoRun
      /\ shellReq.tool = "git"
      /\ shellRun' = [called |-> TRUE,
                      out |-> Git_execute(GitAbstract(shellReq.args), env),
                      commands |-> Git_commands(shellReq.args)]
      /\ UNCHANGED shellReq

\* tools/ProcessToolHandler.ts lines 49-151, called once
ProcessCall(env) ==
  /\ shellRun = NoRun
  /\ shellReq.tool = "process"
  /\ shellRun' = [called |-> TRUE,
                  out |-> Process_execute(shellReq.args, env),
                  commands |-> Process_commands(shellReq.args, env),
                  found |-> env.ps = "found"]
  /\ UNCHANGED shellReq

----------------------------------------------------------------------------
(* ModularMcpServer: the public registry API and the shutdown *)

registerTool(handler) ==
  /\ constructed = "ok" /\ exitCode = -1
  /\ lastRequest' = [kind |-> "register", name |-> HandlerName(handler)]
  /\ toolHandlers' =
       [n \in DOMAIN toolHandlers \cup {HandlerName(handler)} |->
          IF n = HandlerName(handler) THEN handler ELSE toolHandlers[n]]
  /\ lastResult' = [kind |-> "register", handler |-> handler]
  /\ fsLog' = <<>>
  /\ UNCHANGED <<maxFileSize, fs, enabledTools, lifeVars>>

unregisterTool(name) ==
  /\ constructed = "ok" /\ exitCode = -1
  /\ lastRequest' = [kind |-> "unregister", name |-> name]
  /\ toolHandlers' = [n \in DOMAIN toolHandlers \ {name} |-> toolHandlers[n]]
  /\ lastResult' = [kind |-> "unregister",
                    removed |-> name \in DOMAIN toolHandlers]
  /\ fsLog' = <<>>
  /\ UNCHANGED <<maxFileSize, fs, enabledTools, lifeVars>>

\* a signal handler calls gracefulShutdown, which calls server.close() and
\* waits for it
gracefulShutdown_noAwait(signal) ==
  /\ constructed = "ok" /\ exitCode = -1
  /\ closing < MaxSignals
  /\ exitCode' = 0
  /\ UNCHANGED <<srvVars, constructed, closing, closeDone>>

gracefulShutdown(signal) ==
  /\ constructed = "ok" /\ exitCode = -1
  /\ closing < MaxSignals
  /\ closing' = closing + 1
  /\ UNCHANGED <<srvVars, constructed, closeDone, exitCode>>

\* server.close() settles and the shutdown that awaited it goes on: to
\* process.exit(0) after a resolved close, into the catch block and to
\* process.exit(1) after a rejected one
CloseSettles(outcome) ==
  /\ closing > 0 /\ exitCode = -1
  /\ closing' = closing - 1
  /\ closeDone' = outcome
  /\ exitCode' = IF outcome = "resolved" THEN 0 ELSE 1
  /\ UNCHANGED <<srvVars, constructed>>

----------------------------------------------------------------------------
(* Specifications *)

LifeIdle ==
  /\ constructed = "no"
  /\ closing = 0
  /\ closeDone = "none"
  /\ exitCode = -1

SrvIdle ==
  /\ maxFileSize = 1
  /\ fs = [p \in {<<SLASH>>} |-> Dir]
  /\ fsLog = <<>>
  /\ enabledTools = {}
  /\ toolHandlers = <<>>
  /\ lastRequest = [kind |-> "none"]
  /\ lastResult = [kind |-> "none"]

\* the extension host: commands, child events and the timer interleave
Init == ProcIdle /\ PathIdle /\ SrvIdle /\ CalcIdle /\ ShellIdle /\ CfgIdle /\ LifeIdle

Next ==
  /\ \/ \E outcome \in {"ok", "throw", "nostreams", "enoent"} :
          startMcpServer(outcome)
     \/ \E c \in Children : ChildExit(c)
     \/ \E c \in Children : OnClose(c)
     \/ \E c \in Children : OnError(c)
     \/ deactivate
     \/ ForceKillTimer
  /\ UNCHANGED <<pathVars, srvVars, calcVars, shellVars, cfgVars,
                 lifeVars>>

Spec == Init /\ [][Next]_vars

\* validatePath applied to one argument under one workspace root
InitPath ==
  LET
      \* every short path, and paths around the length limit
      PathInputs ==
        UNION {[1..k -> {SLASH, DOT, "a", "w", TILDE, BACKSLASH, NUL}] :
                 k \in 0..MaxLen} \cup
        { Rep("a", MaxPathLength),
          Rep("a", MaxPathLength + 1),
          <<"a", SLASH>> \o Rep("w", MaxPathLength - 2),
          <<SLASH>> \o Rep("a", MaxPathLength - 1),
          <<SLASH>> \o Rep("a", MaxPathLength),
          <<DOT, DOT>> \o Rep("a", MaxPathLength - 1),
          <<TILDE>> \o Rep("a", MaxPathLength - 1) }
  IN
      /\ ProcIdle /\ SrvIdle /\ CalcIdle /\ ShellIdle /\ CfgIdle /\ LifeIdle
      \* path.resolve(workspaceRoot) of the constructor
      /\ workspaceRoot \in { <<SLASH>>, <<SLASH, "w">> }
      /\ pathArg \in PathInputs
      /\ pathResult = NoCall
      /\ legacyPath = NoCall
      /\ legacyCalc = NoCall

NextPath ==
  ValidatePathCall
    /\ UNCHANGED <<procVars, srvVars, calcVars, shellVars, cfgVars,
                 lifeVars>>

SpecPath == InitPath /\ [][NextPath]_vars

\* the modular server answering one request after another; lines 19-42
\* are the constructor
InitSrv ==
  LET
      \* the workspace as the server finds it: the entry `a` of the root is
      \* missing, a file, a directory, or a symbolic link to a file elsewhere
      FsInits(root, max) ==
        LET base == [p \in {<<SLASH>>, root, OUTSIDE} |->
                       IF p = OUTSIDE THEN File(1) ELSE Dir]
            a == IF root = <<SLASH>> THEN <<SLASH, "a">> ELSE root \o <<SLASH, "a">>
        IN { base,
             Extend(base, a, File(max)),
             Extend(base, a, File(max + 1)),
             Extend(base, a, Dir),
             Extend(base, a, [kind |-> "link", size |-> 0, target |-> OUTSIDE]) }
  IN
      /\ ProcIdle /\ CalcIdle /\ ShellIdle /\ CfgIdle /\ LifeIdle
      /\ workspaceRoot = <<SLASH, "w">>
      /\ maxFileSize \in 1..MaxSize
      /\ fs \in FsInits(workspaceRoot, maxFileSize)
      /\ fsLog = <<>>
      \* line 25 gives the default of config.enabledTools, the first choice
      /\ enabledTools \in { {"get_time", "calculate", "file_operation"},
                            DocumentedTools \cup {"bogus"} }
      /\ toolHandlers = initializeTools(enabledTools)
      /\ lastRequest = [kind |-> "none"]
      /\ lastResult = [kind |-> "none"]
      /\ pathArg = <<>>
      /\ pathResult = NoCall
      /\ legacyPath = NoCall
      /\ legacyCalc = NoCall

\* a name without a factory never reaches a handler, so one request per
\* such name is enough; a handler the server never registers is executed
\* on its own
NextSrv ==
  /\ \/ ListTools
     \/ \E t \in DocumentedTools \cup {"bogus"} :
          \E args \in (IF t \in DOMAIN availableTools
                         THEN ArgsFor(HandlerOf[t], maxFileSize)
                         ELSE {Invalid}) :
            \E env \in (IF t \in DOMAIN availableTools
                          THEN EnvsFor(HandlerOf[t]) ELSE {NoEnv}) :
              CallTool(t, args, env)
     \/ \E class \in {HandlerOf[t] :
                       t \in DocumentedTools \ DOMAIN availableTools} :
          \E args \in ArgsFor(class, maxFileSize) :
            \E env \in EnvsFor(class) :
              ExecuteHandler(class, args, env)
  /\ UNCHANGED <<procVars, workspaceRoot, pathArg, pathResult,
                 legacyPath, legacyCalc,
                 calcVars, shellVars, cfgVars,
                 lifeVars>>

SpecSrv == InitSrv /\ [][NextSrv]_vars

\* the calculate tool applied to one expression
InitCalc ==
  LET
      \* every short expression, and expressions around the length and
      \* complexity limits
      CalcInputs ==
        {[valid |-> FALSE]} \cup
        [valid : {TRUE},
         expression :
           UNION {[1..k -> {"1", "+", "(", ")", DOT, SPACE, "a", ";"}] :
                    k \in 0..MaxExprLen} \cup
           { Rep("1", MaxExpressionLength),
             Rep("1", MaxExpressionLength + 1),
             Rep("a", MaxExpressionLength),
             Rep("a", MaxExpressionLength + 1),
             Rep(SPACE, MaxExpressionLength) \o <<"1">>,
             [i \in 1..(2 * MaxOperators + 1) |->
                IF i % 2 = 1 THEN "1" ELSE "+"],
             [i \in 1..(2 * MaxOperators + 3) |->
                IF i % 2 = 1 THEN "1" ELSE "+"] }]
  IN
      /\ ProcIdle /\ PathIdle /\ SrvIdle /\ ShellIdle /\ CfgIdle /\ LifeIdle
      /\ calcArg \in CalcInputs
      /\ calcResult = NoCalc

NextCalc ==
  (\E env \in CalcEnvs : CalculateCall(env))
    /\ UNCHANGED <<procVars, pathVars, srvVars, shellVars, cfgVars,
                 lifeVars>>

SpecCalc == InitCalc /\ [][NextCalc]_vars

\* The legacy server next to the SecurityManager: each validator of either
\* is applied once to the same argument, a path or an expression.
NextLegacy ==
  \/ NextPath
  \/ NextCalc
  \/ LegacyValidatePathCall
       /\ UNCHANGED <<procVars, srvVars, calcVars, shellVars, cfgVars,
                      lifeVars>>
  \/ LegacyCalculateCall
       /\ UNCHANGED <<procVars, srvVars, calcVars, shellVars, cfgVars,
                      lifeVars>>

SpecLegacy == (InitPath \/ InitCalc) /\ [][NextLegacy]_vars

\* the git or the process tool applied to one request
InitShell ==
  LET
      \* the requests made of the git tool and of the process tool
      ShellRequests ==
        LET
            ShellStrings ==
              UNION {[1..k -> {"a", ";", "$", DQUOTE}] : k \in 0..MaxArgLen}
        IN
            LET
                OptStrings == {NoStr} \cup {Str(s) : s \in ShellStrings}
            IN
                [tool : {"git"},
                 args :
                   {Invalid} \cup
                   [valid : {TRUE}, operation : {"status", "log", "commit"},
                    args : {<<>>}, message : OptStrings] \cup
                   [valid : {TRUE}, operation : {"status", "commit"},
                    args : {<<s>> : s \in ShellStrings}
                             \cup {<<s, <<"a">>>> : s \in ShellStrings},
                    message : {Str(<<"a">>)}]] \cup
                [tool : {"process"},
                 args :
                   {Invalid} \cup
                   [valid : {TRUE}, operation : {"list", "info"}, filter : OptStrings,
                    pid : {NoPid}, signal : {"absent"}] \cup
                   [valid : {TRUE}, operation : {"kill"}, filter : {NoStr},
                    pid : {NoPid}
                            \cup {Pid(n) : n \in {-1, 0, 1, 2, 5, MaxPid, MaxPid + 1}},
                    signal : {"absent", "KILL", "STOP", "kill"}]]
  IN
      /\ ProcIdle /\ PathIdle /\ SrvIdle /\ CalcIdle /\ CfgIdle /\ LifeIdle
      /\ shellReq \in ShellRequests
      /\ shellRun = NoRun

NextShell ==
  (\/ \E env \in GitEnvs : GitCall(env)
   \* how the ps lookup and the kill command end
   \/ \E env \in [ps : {"found", "header", "fail"},
                  kill : {"ok", "nosuch", "fail"}] : ProcessCall(env))
    /\ UNCHANGED <<procVars, pathVars, srvVars, calcVars, cfgVars,
                   lifeVars>>

SpecShell == InitShell /\ [][NextShell]_vars

\* one ConfigManager: loadConfig, then getSanitizedConfig at any time
InitCfg ==
  LET
      \* the environment and the file supply one setting each way; the token
      \* varies besides
      CfgInputs ==
        LET
            \* what the environment may hold for a setting's variable
            EnvValues(s) ==
              CASE s = "security.workspaceRoot" ->
                     {S(<<SLASH, "w", SLASH, "a">>), S(<<SLASH, "e">>),
                      S(<<SLASH, "w", "x">>)}
                [] s = "security.maxFileSize" ->
                     {S(<<"5">>), S(<<"5", "x">>), S(<<"x">>), S(<<"-", "5">>)}
                [] s \in {"security.strictPathValidation", "security.allowAbsolutePaths",
                          "github.readOnly"} ->
                     {S(<<"true">>), S(<<"false">>), S(<<"1">>)}
                [] s = "security.allowedOperations" -> {S(<<"read", ",", "write">>)}
                [] s = "mcp.name" -> {S(<<"n">>)}
                [] s = "mcp.version" -> {S(<<"2">>)}
                [] s = "mcp.port" -> {S(<<"8", "0">>)}
                [] s = "mcp.logLevel" -> {S(<<"debug">>), S(<<"loud">>)}
                [] s = "github.personalAccessToken" ->
                     {S(<<"tokA">>), S(<<"tokB">>), S(<<>>)}
                [] s = "github.toolsets" -> {S(<<"repos">>)}
            \* what the config file may hold under a setting's key
            FileValues(s) ==
              CASE s = "security.workspaceRoot" -> {S(<<SLASH, "f">>)}
                [] s = "security.maxFileSize" -> {N(7), N(0), S(<<"7">>)}
                [] s \in {"security.strictPathValidation", "security.allowAbsolutePaths",
                          "github.readOnly"} -> {B(TRUE), B(FALSE)}
                [] s = "security.allowedOperations" -> {A(<< <<"list">> >>)}
                [] s = "mcp.name" -> {S(<<"f">>)}
                [] s = "mcp.version" -> {S(<<"3">>)}
                [] s = "mcp.port" -> {N(9)}
                [] s = "mcp.logLevel" -> {S(<<"warn">>)}
                [] s = "github.personalAccessToken" -> {S(<<"tokF">>)}
                [] s = "github.toolsets" -> {S(<<"all">>)}
        IN UNION {
          { [env |-> IF s = TOKEN THEN [NothingSet EXCEPT ![s] = e]
                     ELSE [NothingSet EXCEPT ![s] = e, ![TOKEN] = t],
             file |-> [NothingSet EXCEPT ![s] = f]] :
              e \in {Undef} \cup EnvValues(s),
              f \in {Undef} \cup FileValues(s),
              t \in {Undef, S(<<"tokA">>), S(<<"tokB">>)} } :
          s \in Settings }
  IN
      /\ ProcIdle /\ PathIdle /\ SrvIdle /\ CalcIdle /\ ShellIdle /\ LifeIdle
      /\ cfgIn \in CfgInputs
      /\ cfgLoaded = NotLoaded
      /\ cfgSanitized = NoOutput
      /\ loadCalls = [c \in 1..MaxLoads |-> NoLoad]
      /\ configFiles = [p \in {"a.json", "b.json"} |-> [kind |-> "ENOENT"]]
      /\ gotConfig = [called |-> FALSE]

NextCfg ==
  (LoadConfigCall \/ GetSanitizedConfigCall)
    /\ UNCHANGED <<procVars, pathVars, srvVars, calcVars, shellVars,
                   lifeVars, loadCalls, configFiles, gotConfig>>

SpecCfg == InitCfg /\ [][NextCfg]_vars

\* The singleton ConfigManager under several loadConfig calls, which may
\* overlap while they wait for their files, with getConfig at any time.
InitLoad ==
  LET json(s, v) == [kind |-> "json", content |-> [NothingSet EXCEPT ![s] = v]]
  IN
      /\ ProcIdle /\ PathIdle /\ SrvIdle /\ CalcIdle /\ ShellIdle /\ LifeIdle
      /\ cfgIn = [env |-> NothingSet, file |-> NothingSet]
      /\ cfgLoaded = NotLoaded
      /\ cfgSanitized = NoOutput
      /\ loadCalls = [c \in 1..MaxLoads |-> NoLoad]
      /\ configFiles \in
           { [p \in {"a.json", "b.json"} |-> IF p = "a.json" THEN a ELSE b] :
               <<a, b>> \in
                 { <<json("mcp.name", S(<<"a">>)), json("mcp.name", S(<<"b">>))>>,
                   <<json("mcp.name", S(<<"a">>)), json("mcp.port", N(0))>>,
                   <<json("mcp.name", S(<<"a">>)), [kind |-> "ENOENT"]>>,
                   <<[kind |-> "ENOENT"], [kind |-> "EACCES"]>> } }
      /\ gotConfig = [called |-> FALSE]

NextLoad ==
  /\ \/ \E c \in 1..MaxLoads : \E path \in {"none", "a.json", "b.json"} :
          LoadConfigStart(c, path)
     \/ \E c \in 1..MaxLoads : LoadConfigResume(c)
     \/ GetConfigCall
     \/ \E env \in {NothingSet,
                     [NothingSet EXCEPT !["mcp.logLevel"] = S(<<"debug">>)]} :
          SetEnv(env)
  /\ UNCHANGED <<procVars, pathVars, srvVars, calcVars, shellVars, lifeVars>>

SpecLoad == InitLoad /\ [][NextLoad]_vars

\* The life of one ModularMcpServer: the constructor ends normally or
\* throws; a constructed server answers requests, has handlers registered
\* and unregistered by its embedder, and shuts down on a signal.
InitLife ==
  /\ ProcIdle /\ PathIdle /\ CalcIdle /\ ShellIdle /\ CfgIdle
  /\ maxFileSize = 1
  /\ fs = [p \in {<<SLASH>>} |-> Dir]
  /\ fsLog = <<>>
  /\ enabledTools \in { {"get_time", "calculate", "file_operation"},
                        {"get_time", "bogus"},
                        {"calculate", "constructor"},
                        {"get_time", "__proto__"} }
  /\ constructed = IF initializeTools_throws(enabledTools)
                     THEN "threw" ELSE "ok"
  /\ toolHandlers = IF initializeTools_throws(enabledTools)
                      THEN <<>> ELSE initializeTools(enabledTools)
  /\ lastRequest = [kind |-> "none"]
  /\ lastResult = [kind |-> "none"]
  /\ closing = 0
  /\ closeDone = "none"
  /\ exitCode = -1

NextLife ==
  \/ /\ \/ /\ constructed = "ok" /\ exitCode = -1
           /\ ListTools /\ UNCHANGED lifeVars
        \/ \E n \in {"get_time", "calculate", "system_info", "constructor",
                      "bogus"} :
             /\ constructed = "ok" /\ exitCode = -1
             /\ CallTool(n, Invalid, NoEnv) /\ UNCHANGED lifeVars
        \/ \E h \in {"CallerTimeHandler", "TimeToolHandler",
                      "SystemInfoToolHandler"} : registerTool(h)
        \/ \E n \in {"get_time", "calculate", "system_info", "bogus"} :
             unregisterTool(n)
        \/ \E sig \in {"SIGINT", "SIGTERM"} : gracefulShutdown(sig)
        \/ \E outcome \in {"resolved", "rejected"} : CloseSettles(outcome)
     /\ UNCHANGED <<procVars, pathVars, calcVars, shellVars, cfgVars>>

SpecLife == InitLife /\ [][NextLife]_vars

\* a close that was called settles, and the event loop then resumes the
\* shutdown that awaits it
SpecLifeFair ==
  SpecLife /\ WF_lifeVars(\E outcome \in {"resolved", "rejected"} :
                        CloseSettles(outcome))

----------------------------------------------------------------------------
(* Claims *)

\* C1 (as claimed): in every reachable state at most one child process
\* spawned by the extension is alive.
C1_AtMostOneAlive == Cardinality(alive) <= 1

\* C2 (as claimed): the child deactivate sent SIGTERM to has, once the
\* force-kill timer fired, either exited or been sent SIGKILL.
C2_ForcedTermination ==
  /\ (deactivated /\ exitListener # Null /\ exitListener \in alive)
        => "SIGTERM" \in signals[exitListener]
  /\ (forceKillTimeout = "fired" /\ exitListener \in alive)
        => "SIGKILL" \in signals[exitListener]

\* C3 (as claimed): every live child is the one serverProcess refers to or
\* has been sent a termination signal; after deactivate no live child is
\* left unsignalled.
C3_NoOrphans ==
  /\ \A c \in alive : c = serverProcess \/ signals[c] # {}
  /\ deactivated => \A c \in alive : signals[c] # {}

\* C4: a path validatePath returns is the workspace root or begins with
\* the root followed by the separator, and lies inside the workspace.
C4_ReturnedPathInside ==
  (pathResult.called /\ pathResult.ok) =>
     /\ \/ pathResult.path = workspaceRoot
        \/ StartsWith(pathResult.path, workspaceRoot \o <<SLASH>>)
     /\ IsWithin(pathResult.path, workspaceRoot)

\* a relative path that resolves below the root was validated and returned
C4_Witness ==
  /\ pathResult.called /\ pathResult.ok
  /\ workspaceRoot = <<SLASH, "w">>
  /\ pathResult.path = <<SLASH, "w", SLASH, "a">>

\* the pattern the claims expect to be named: the first of '..', './',
\* backslash, '~' (in that order) that occurs in p; <<>> if none occurs
ExpectedPattern(p) ==
  IF Includes(p, <<DOT, DOT>>) THEN <<DOT, DOT>>
  ELSE IF Includes(p, <<DOT, SLASH>>) THEN <<DOT, SLASH>>
  ELSE IF Includes(p, <<BACKSLASH>>) THEN <<BACKSLASH>>
  ELSE IF Includes(p, <<TILDE>>) THEN <<TILDE>>
  ELSE <<>>

PassesInputChecks(p) ==
  /\ Len(p) >= 1
  /\ Len(p) <= 1000
  /\ ~Includes(p, <<NUL>>)

\* C6 (as claimed): every path containing '..', './', a backslash or '~' is
\* rejected with the 'Security violation' error naming the first matching
\* pattern.
C6_Original ==
  (pathResult.called /\ ExpectedPattern(pathArg) # <<>>) =>
     /\ ~pathResult.ok
     /\ pathResult.error = E_SUSPICIOUS
     /\ pathResult.pattern = ExpectedPattern(pathArg)

\* C6 (amended): every path containing one of the four patterns is
\* rejected; when the path has at most 1000 characters and no NUL byte the
\* error is 'Security violation' naming the first matching pattern in the
\* order '..', './', backslash, '~'.
C6_SuspiciousRejected ==
  (pathResult.called /\ ExpectedPattern(pathArg) # <<>>) =>
     /\ ~pathResult.ok
     /\ PassesInputChecks(pathArg) =>
           /\ pathResult.error = E_SUSPICIOUS
           /\ pathResult.pattern = ExpectedPattern(pathArg)

\* './a' would normalise to 'a'; it is rejected as written, naming './'
C6_Witness ==
  /\ pathResult.called
  /\ pathArg = <<DOT, SLASH, "a">>
  /\ ~pathResult.ok
  /\ pathResult.error = E_SUSPICIOUS
  /\ pathResult.pattern = <<DOT, SLASH>>

\* C7 (as claimed, for paths that pass the length and NUL checks): every
\* absolute path is rejected; one free of suspicious substrings is rejected
\* with 'Access denied' when it resolves outside the workspace and with
\* 'Absolute paths not allowed' when it resolves inside.
C7_AbsoluteRejected ==
  (pathResult.called /\ isAbsolute(pathArg) /\ PassesInputChecks(pathArg)) =>
     /\ ~pathResult.ok
     /\ ExpectedPattern(pathArg) = <<>> =>
           pathResult.error =
              IF IsWithin(resolve(workspaceRoot, pathArg), workspaceRoot)
                THEN E_ABSOLUTE ELSE E_OUTSIDE

\* C8 (as claimed): a non-empty relative path of at most 1000 characters
\* with no NUL byte and no suspicious substring is accepted and the result
\* is path.resolve(workspaceRoot, path); a longer path is rejected.
C8_ValidPathsAllowed ==
  pathResult.called =>
     /\ (/\ PassesInputChecks(pathArg)
         /\ ~isAbsolute(pathArg)
         /\ ExpectedPattern(pathArg) = <<>>)
           => /\ pathResult.ok
              /\ pathResult.path = resolve(workspaceRoot, pathArg)
     /\ Len(pathArg) > 1000 => ~pathResult.ok

\* C5 (as claimed): every path the file_operation tool hands to stat,
\* readFile, mkdir, writeFile or readdir, and the file or directory that
\* call reaches, lies inside the workspace root.
C5_FileOpsInsideWorkspace ==
  \A i \in 1..Len(fsLog) :
     /\ IsWithin(fsLog[i].path, workspaceRoot)
     /\ IsWithin(fsLog[i].real, workspaceRoot)

HasTextItem(result) ==
  \E i \in 1..Len(result.content) : result.content[i].type = "text"

TextOf(result) == result.content[1].text

IsSystemInfoAll ==
  /\ lastResult.handler = "SystemInfoToolHandler"
  /\ lastRequest.args.valid
  /\ lastRequest.args.type = "all"

\* C9 (as claimed): every tool call returns a ToolResult with a text item
\* and never throws, and every failure is reported as text beginning
\* 'Error: '.
C9_Original ==
  lastResult.kind = "call" =>
     /\ ~lastResult.out.threw
     /\ HasTextItem(lastResult.out.result)
     /\ lastResult.out.failed =>
           TextOf(lastResult.out.result)[1] = ERROR_PREFIX

\* C9 (amended): every tool call returns a ToolResult with a text item and
\* never throws; every failure is reported as text beginning 'Error: ',
\* except that system_info with type 'all' reports a failing command as an
\* 'Error: ' line inside a result that begins 'Complete System Information:'.
C9_FailuresReturnedAsText ==
  lastResult.kind = "call" =>
     /\ ~lastResult.out.threw
     /\ HasTextItem(lastResult.out.result)
     /\ lastResult.out.failed =>
           IF IsSystemInfoAll
             THEN /\ TextOf(lastResult.out.result)[1] =
                        "Complete System Information:"
                  /\ \E i \in 1..Len(TextOf(lastResult.out.result)) :
                        TextOf(lastResult.out.result)[i] = ERROR_PREFIX
             ELSE TextOf(lastResult.out.result)[1] = ERROR_PREFIX

\* a tools/call of file_operation whose fs call failed came back as text
C9_Witness ==
  /\ lastRequest.kind = "call"
  /\ lastRequest.name = "file_operation"
  /\ lastResult.handler = "FileOperationToolHandler"
  /\ Len(fsLog) > 0
  /\ lastResult.out.failed
  /\ ~lastResult.out.threw
  /\ TextOf(lastResult.out.result)[1] = ERROR_PREFIX

\* C10 (as claimed): each documented tool named in enabledTools is
\* registered, listed by tools/list and dispatched to its handler by
\* tools/call.
C10_DocumentedToolsServed ==
  \A t \in DocumentedTools \cap enabledTools :
     /\ t \in DOMAIN toolHandlers
     /\ lastResult.kind = "list" => t \in lastResult.tools
     /\ (lastRequest.kind = "call" /\ lastRequest.name = t) =>
           lastResult.handler = HandlerOf[t]

IsFileCall ==
  /\ lastResult.kind = "call"
  /\ lastResult.handler = "FileOperationToolHandler"
  /\ lastRequest.args.valid

Logged(fn) == \E i \in 1..Len(fsLog) : fsLog[i].fn = fn

\* the size rules that hold whatever the request: content is read only from
\* a file within the limit, and a write touches the disk only with content
\* within the limit
SizeLimitRespected ==
  LET a == lastRequest.args
      vp == validatePath(workspaceRoot, a.path)
  IN /\ Logged("readFile") => Node(fs, vp.path).size <= maxFileSize
     /\ (a.operation = "read" /\ ~lastResult.out.failed) => Logged("readFile")
     /\ (Logged("mkdir") \/ Logged("writeFile")) =>
           /\ a.content.present
           /\ a.content.length <= maxFileSize
     /\ (/\ a.operation = "read" /\ vp.ok /\ Exists(fs, vp.path)
         /\ Node(fs, vp.path).kind = "file"
         /\ Node(fs, vp.path).size > maxFileSize)
           => /\ lastResult.out.failed
              /\ TextOf(lastResult.out.result) =
                    <<ERROR_PREFIX, "File too large">>
              /\ ~Logged("readFile")
     /\ (/\ a.operation = "read" /\ vp.ok /\ Exists(fs, vp.path)
         /\ Node(fs, vp.path).kind = "file"
         /\ Node(fs, vp.path).size <= maxFileSize)
           => /\ ~lastResult.out.failed
              /\ Logged("readFile")

\* C11 (as claimed): a read returns content only of a file of at most
\* maxFileSize, a write is performed only with content of at most
\* maxFileSize; otherwise 'File too large' or 'Content too large' is
\* returned and nothing is read or written.
C11_Original ==
  IsFileCall =>
     /\ SizeLimitRespected
     /\ (/\ lastRequest.args.operation = "write"
         /\ lastRequest.args.content.length > maxFileSize)
           => /\ lastResult.out.failed
              /\ TextOf(lastResult.out.result) =
                    <<ERROR_PREFIX, "Content too large">>
              /\ fsLog = <<>>

\* C11 (amended): as claimed, except that a write with content above the
\* limit is answered 'Content too large' only when its path passes
\* validatePath; with a rejected path the answer is the path error.  In both
\* cases nothing is written.
C11_FileSizeLimits ==
  IsFileCall =>
     /\ SizeLimitRespected
     /\ (/\ lastRequest.args.operation = "write"
         /\ lastRequest.args.content.length > maxFileSize)
           => /\ lastResult.out.failed
              /\ fsLog = <<>>
              /\ TextOf(lastResult.out.result) =
                    IF validatePath(workspaceRoot, lastRequest.args.path).ok
                      THEN <<ERROR_PREFIX, "Content too large">>
                      ELSE <<ERROR_PREFIX>> \o PathErrorText(
                              validatePath(workspaceRoot,
                                           lastRequest.args.path))

\* a file one byte above the limit was asked for and refused unread
C11_Witness ==
  /\ IsFileCall
  /\ lastRequest.args.operation = "read"
  /\ lastRequest.args.path = <<"a">>
  /\ Exists(fs, workspaceRoot \o <<SLASH, "a">>)
  /\ Node(fs, workspaceRoot \o <<SLASH, "a">>).size = maxFileSize + 1
  /\ fsLog # <<>>
  /\ ~Logged("readFile")
  /\ TextOf(lastResult.out.result) = <<ERROR_PREFIX, "File too large">>

\* C12 (as claimed): no error result of the file_operation tool contains the
\* absolute workspace root path; every occurrence of the root in the error
\* text has been replaced by '[workspace]'.
C12_NoRootInErrors ==
  (/\ lastResult.kind = "call"
   /\ lastResult.handler = "FileOperationToolHandler"
   /\ lastResult.out.failed)
     => ~Includes(TextOf(lastResult.out.result), workspaceRoot)

E_INVALID_CHARS == "Expression contains invalid characters"

\* the expression, once its spaces are removed, has a character outside
\* digits, + - * / ( ) and .
HasForeignChar(e) ==
  \E i \in 1..Len(e) : e[i] # SPACE /\ e[i] \notin MathChars

\* C13 (as claimed): every expression that after whitespace removal has a
\* character other than digits, + - * / ( ) . is rejected unevaluated with
\* 'Expression contains invalid characters'; eval only ever receives a
\* string made of those characters.
C13_Original ==
  (calcResult.called /\ calcArg.valid) =>
     /\ HasForeignChar(calcArg.expression) =>
           /\ ~calcResult.eval.reached
           /\ calcResult.out.failed
           /\ TextOf(calcResult.out.result) = <<ERROR_PREFIX, E_INVALID_CHARS>>
     /\ calcResult.eval.reached =>
           \A i \in 1..Len(calcResult.eval.code) :
              calcResult.eval.code[i] \in MathChars

\* C13 (amended): every such expression is rejected unevaluated, with
\* 'Expression contains invalid characters' when it has at most 1000
\* characters and with 'Expression too long' otherwise; eval only ever
\* receives a string made of the allowed characters.
C13_InjectionBlocked ==
  (calcResult.called /\ calcArg.valid) =>
     /\ HasForeignChar(calcArg.expression) =>
           /\ ~calcResult.eval.reached
           /\ calcResult.out.failed
           /\ TextOf(calcResult.out.result) =
                 IF Len(calcArg.expression) <= MaxExpressionLength
                   THEN <<ERROR_PREFIX, E_INVALID_CHARS>>
                   ELSE <<ERROR_PREFIX,
                          "Expression too long (max 1000 characters)">>
     /\ calcResult.eval.reached =>
           \A i \in 1..Len(calcResult.eval.code) :
              calcResult.eval.code[i] \in MathChars

\* '1;a' is refused without reaching eval
C13_Witness ==
  /\ calcResult.called
  /\ calcArg.valid
  /\ calcArg.expression = <<"1", ";", "a">>
  /\ ~calcResult.eval.reached
  /\ TextOf(calcResult.out.result) = <<ERROR_PREFIX, E_INVALID_CHARS>>

\* C14 (as claimed): no command line the git and process tools execute
\* holds any of the characters ; & | backquote $ ( ) taken from the request
\* (git additional args, commit message, process filter).
C14_InputSanitized ==
  shellRun.called =>
     \A i \in 1..Len(shellRun.commands) :
        \A j \in 1..Len(shellRun.commands[i]) :
           shellRun.commands[i][j] \notin DangerousChars

IsKillCall ==
  /\ shellRun.called
  /\ shellReq.tool = "process"
  /\ shellReq.args.valid
  /\ shellReq.args.operation = "kill"

KillExecuted ==
  \E i \in 1..Len(shellRun.commands) : shellRun.commands[i][1] = "kill -"

\* the signal asked for, TERM when none is given
RequestedSignal ==
  IF shellReq.args.signal = "absent" THEN "TERM" ELSE shellReq.args.signal

\* all the restrictions the claim lists
KillAllowed ==
  /\ shellReq.args.pid.given
  /\ shellReq.args.pid.value > 0
  /\ shellReq.args.pid.value <= 999999
  /\ shellReq.args.pid.value \notin {1, 2}
  /\ RequestedSignal \in {"TERM", "KILL", "HUP", "INT", "QUIT", "USR1", "USR2"}
  /\ shellRun.found

\* C15: the kill operation executes a kill command only when a pid with
\* 0 < pid <= 999999 other than 1 and 2 is given, the signal is an allowed
\* one and the preceding ps lookup found the process; otherwise it returns
\* an error result and executes no kill command.
C15_KillRestricted ==
  IsKillCall =>
     /\ KillExecuted =>
           /\ KillAllowed
           /\ shellRun.commands =
                 << <<"ps -p ", ToString(shellReq.args.pid.value),
                      " -o pid,ppid,cmd">>,
                    <<"kill -", RequestedSignal, " ",
                      ToString(shellReq.args.pid.value)>> >>
     /\ ~KillAllowed =>
           /\ ~KillExecuted
           /\ shellRun.out.failed
           /\ ~shellRun.out.threw
           /\ TextOf(shellRun.out.result)[1] = ERROR_PREFIX

\* process 5 was found by ps and sent the default TERM signal
C15_Witness ==
  /\ IsKillCall
  /\ shellReq.args.pid = Pid(5)
  /\ shellReq.args.signal = "absent"
  /\ KillExecuted
  /\ ~shellRun.out.failed

\* the setting comes from the environment as well as from the file
SuppliedByBoth(s) ==
  /\ Truthy(cfgIn.env[s])
  /\ cfgIn.file[s] # Undef

\* C16 (as claimed): a setting supplied by its environment variable and by
\* the config file has, in the loaded configuration, the value the
\* environment variable gives it.
C16_EnvPrecedence ==
  cfgLoaded.loaded =>
     \A s \in Settings :
        SuppliedByBoth(s) =>
           cfgLoaded.value[s] = FromEnvironment(s, cfgIn.env[s])

\* neither the environment nor the file supplies the setting
SuppliedByNeither(s) ==
  /\ cfgIn.env[s] = Undef
  /\ cfgIn.file[s] = Undef

\* the defaults the schemas declare (lines 7-9 and 23)
DeclaredDefault(s) ==
  CASE s = "security.strictPathValidation" -> B(TRUE)
    [] s = "github.readOnly" -> B(TRUE)
    [] s = "security.allowAbsolutePaths" -> B(FALSE)
    [] s = "security.maxFileSize" -> N(10485760)

\* C17 (as claimed): a setting supplied by neither the environment nor the
\* config file has its declared default in the loaded configuration:
\* strictPathValidation true, readOnly true, allowAbsolutePaths false and
\* maxFileSize 10485760.
C17_DeclaredDefaults ==
  cfgLoaded.loaded =>
     \A s \in {"security.strictPathValidation", "github.readOnly",
               "security.allowAbsolutePaths", "security.maxFileSize"} :
        SuppliedByNeither(s) => cfgLoaded.value[s] = DeclaredDefault(s)

\* the part of C17 the code does satisfy
C17_OtherDefaults ==
  cfgLoaded.loaded =>
     \A s \in {"security.allowAbsolutePaths", "security.maxFileSize"} :
        SuppliedByNeither(s) => cfgLoaded.value[s] = DeclaredDefault(s)

\* the tokens a configuration may carry
NonEmptyTokens == {S(<<"tokA">>), S(<<"tokB">>), S(<<"tokF">>)}

\* every value the sanitized configuration holds
SanitizedLeaves(out) ==
  {out.security.maxFileSize, out.security.strictPathValidation,
   out.security.allowAbsolutePaths, out.security.allowedOperations,
   S(out.security.workspaceRoot),
   out.mcp.name, out.mcp.version, out.mcp.port, out.mcp.logLevel,
   out.github.toolsets, out.github.readOnly, B(out.github.hasToken)}

\* C18: the sanitized configuration does not hold the GitHub token, and a
\* loaded configuration that differs from this one only in a non-empty
\* token has the same sanitized output.
C18_TokenNotExposed ==
  (cfgSanitized.called /\ ~cfgSanitized.empty
      /\ cfgLoaded.value[TOKEN] \in NonEmptyTokens) =>
     /\ cfgLoaded.value[TOKEN] \notin SanitizedLeaves(cfgSanitized.value)
     /\ \A t \in NonEmptyTokens :
          getSanitizedConfig([cfgLoaded.value EXCEPT ![TOKEN] = t])
            = cfgSanitized.value

\* a configuration with a token from the file has been sanitized
C18_Witness ==
  /\ cfgSanitized.called
  /\ ~cfgSanitized.empty
  /\ cfgLoaded.value[TOKEN] = S(<<"tokF">>)
  /\ cfgSanitized.value.github.hasToken

\* a step that is one call of startMcpServer
IsStartCall == nextChild' = nextChild + 1

\* C19: a call of startMcpServer made while serverProcess tracks a child
\* sends SIGTERM to that child (if it still runs) and not to the child it
\* spawns, and when the call completes without error serverProcess is the
\* newly spawned child, not the old one.
C19_RestartKillsOld ==
  [][(IsStartCall /\ serverProcess # Null) =>
        /\ serverProcess \in alive => "SIGTERM" \in signals'[serverProcess]
        /\ signals'[nextChild] = {}
        /\ spawnOutcome' \in {"ok", "enoent"} =>
              /\ serverProcess' = nextChild
              /\ serverProcess' # serverProcess]_vars

\* the second child is tracked and the first, still running, has been
\* sent SIGTERM by the restart
C19_Witness ==
  /\ ~deactivated
  /\ serverProcess = 2
  /\ 2 \in alive
  /\ 1 \in alive
  /\ "SIGTERM" \in signals[1]

\* C20: when startMcpServer fails (spawn throws or the streams are
\* missing) the failure message is shown, serverProcess is null and the
\* call leaves no child process running.
C20_FailedStartCleansUp ==
  [][(IsStartCall /\ spawnOutcome' \in {"throw", "nostreams"}) =>
        /\ shown' = M_FAILED
        /\ serverProcess' = Null
        /\ nextChild \notin alive'
        /\ alive' \subseteq alive]_vars

\* a start failed on missing streams while an earlier child was tracked
C20_Witness ==
  /\ spawnOutcome = "nostreams"
  /\ shown = M_FAILED
  /\ serverProcess = Null
  /\ nextChild = 3
  /\ 1 \in alive

\* the expression without its white space
Stripped(e) == SelectSeq(e, LAMBDA c : c # SPACE)

\* what C21 requires of an expression that is to be accepted
Acceptable(e) ==
  LET s == Stripped(e)
      count(cs, k) == Cardinality({i \in 1..k : s[i] \in cs})
  IN /\ Len(e) <= 1000
     /\ Len(s) > 0
     /\ \A i \in 1..Len(s) :
          s[i] \in {"0", "1", "2", "3", "4", "5", "6", "7", "8", "9",
                    "+", "-", "*", "/", "(", ")", DOT}
     /\ \A i \in 1..(Len(s) - 1) : ~(s[i] = DOT /\ s[i + 1] = DOT)
     /\ count({"+", "-", "*", "/"}, Len(s)) <= 100
     /\ \A k \in 1..Len(s) : count({")"}, k) <= count({"("}, k)
     /\ count({")"}, Len(s)) = count({"("}, Len(s))

----------------------------------------------------------------------------
(* C22: the tool registry, tools/list and tools/call *)

\* the names that are not keys of the availableTools literal but that a
\* lookup in it finds all the same
InheritedNames == {"constructor", "__proto__"}

C22_Agreement ==
  /\ \A n \in DOMAIN toolHandlers : n \in DocumentedTools
  /\ lastResult.kind = "list" => lastResult.tools = DOMAIN toolHandlers
  /\ lastResult.kind = "call" /\ lastRequest.kind = "call" =>
       IF lastRequest.name \in DOMAIN toolHandlers
         THEN lastResult.handler = toolHandlers[lastRequest.name]
         ELSE /\ lastResult.handler = "none"
              /\ lastResult.out.result.content[1].text =
                   <<"Error: ", "Unknown tool: ", lastRequest.name>>
  /\ lastRequest.kind = "register" =>
       /\ lastRequest.name \in DOMAIN toolHandlers
       /\ toolHandlers[lastRequest.name] = lastResult.handler
  /\ lastRequest.kind = "unregister" =>
       lastRequest.name \notin DOMAIN toolHandlers

\* C22: after construction and any sequence of registerTool and
\* unregisterTool calls the registry, tools/list and tools/call agree:
\* tools/list returns exactly the registered names, tools/call reaches the
\* handler registered last under the name and answers "Error: Unknown tool"
\* for any other name, and a name of enabledTools that the server does not
\* know is skipped without failing the construction.
C22_RegistryAgrees ==
  /\ constructed = "ok"
  /\ C22_Agreement

\* the part of C22 that holds: servers whose enabledTools name nothing that
\* the literal inherits
C22_WithoutInherited ==
  enabledTools \cap InheritedNames = {} => C22_RegistryAgrees

\* unregisterTool returns true exactly when the name was registered, and
\* removes nothing else
C22_UnregisterResult ==
  [][lastRequest'.kind = "unregister" /\ lastRequest' # lastRequest =>
       /\ lastResult'.removed = (lastRequest'.name \in DOMAIN toolHandlers)
       /\ DOMAIN toolHandlers' = DOMAIN toolHandlers \ {lastRequest'.name}]_vars

----------------------------------------------------------------------------
(* C23: shutdown on SIGINT and SIGTERM *)

\* the process has exited with code 0 only after a close that completed,
\* and with code 1 only after a close that threw
C23_ExitFollowsClose ==
  /\ exitCode \in {-1, 0, 1}
  /\ exitCode = 0 => closeDone = "resolved"
  /\ exitCode = 1 => closeDone = "rejected"

\* C23: on SIGINT or SIGTERM the server process closes the MCP server and
\* exits with code 0 only after the close has completed, or with code 1 if
\* the close throws; after either signal the process eventually exits.
C23_GracefulShutdown ==
  /\ [] C23_ExitFollowsClose
  /\ (closing > 0) ~> (exitCode # -1)

C23_Witness ==
  /\ constructed = "ok"
  /\ closeDone = "resolved"
  /\ exitCode = 0

----------------------------------------------------------------------------
(* C24, C27: loading the configuration *)

Returned_load(c) == loadCalls[c].pc = "returned"

\* getConfig throws until a loadConfig call has succeeded
C24_GetConfigGuarded ==
  gotConfig.called =>
    /\ gotConfig.threw <=> gotConfig.after = {}
    /\ gotConfig.threw => gotConfig.message[1] = "Configuration not loaded"

\* a call made after another call has succeeded returns the configuration
\* which that call returned
C24_LaterLoadsCached ==
  \A d \in 1..MaxLoads : Returned_load(d) =>
    \A c \in loadCalls[d].after :
      /\ loadCalls[d].cached
      /\ loadCalls[d].config = loadCalls[c].config

\* a call that fails throws 'Configuration error: ...'; a missing file is
\* an empty file configuration
C24_FailureAndMissingFile ==
  \A c \in 1..MaxLoads :
    /\ loadCalls[c].pc = "threw" =>
         loadCalls[c].message[1] = "Configuration error: "
    /\ /\ loadCalls[c].pc \in {"returned", "threw"}
       /\ ~loadCalls[c].cached
       /\ loadCalls[c].path # "none"
       /\ configFiles[loadCalls[c].path].kind = "ENOENT"
       => /\ Returned_load(c) <=> loadConfig(loadCalls[c].env, NothingSet).ok
          /\ Returned_load(c) =>
               loadCalls[c].config =
                 loadConfig(loadCalls[c].env, NothingSet).config

\* a call that fails leaves this.config as it was
C24_FailureLeavesConfig ==
  \A c \in 1..MaxLoads :
    loadCalls[c].pc # "threw" /\ loadCalls'[c].pc = "threw" =>
      cfgLoaded' = cfgLoaded

\* C24: getConfig throws 'Configuration not loaded' until some loadConfig
\* call has succeeded; once one has succeeded every later loadConfig call
\* returns that same cached configuration, whatever configPath it is given
\* and without reading environment or file again; a loadConfig that fails
\* throws an error prefixed 'Configuration error: ' and loads nothing; a
\* missing config file counts as an empty file configuration.
C24_CachedAndGuarded ==
  /\ [](C24_GetConfigGuarded /\ C24_LaterLoadsCached
          /\ C24_FailureAndMissingFile)
  /\ [][C24_FailureLeavesConfig]_vars

\* C27: once a loadConfig call has resolved with a configuration, what
\* getConfig returns never changes, also when several loadConfig calls with
\* different configPath arguments are in flight at once.
C27_ConfigNeverChanges ==
  [][cfgLoaded.loaded => cfgLoaded' = cfgLoaded]_vars

\* the calls are made one after the other: none is made while another one
\* waits for its file
NextLoadInTurn ==
  /\ NextLoad
  /\ (\E c \in 1..MaxLoads : loadCalls[c].pc = "reading") =>
       \A c \in 1..MaxLoads : loadCalls[c].pc = "idle" => loadCalls'[c].pc = "idle"

SpecLoadInTurn == InitLoad /\ [][NextLoadInTurn]_vars

----------------------------------------------------------------------------
(* C25: events of a child that has been replaced *)

\* the children whose 'close' or 'error' handler runs on this step
EventOf(c) ==
  \/ c \in pendingClose /\ c \notin pendingClose'
  \/ c \in pendingError /\ c \notin pendingError'

\* C25: a close, error or disconnect event of a child that a later
\* startMcpServer has replaced leaves serverProcess unchanged; serverProcess
\* becomes null only by an event of the child it refers to, by a failed
\* start, or by deactivate.
C25_StaleEventsIgnored ==
  [][/\ \A c \in Children :
          EventOf(c) /\ serverProcess # c => serverProcess' = serverProcess
     /\ serverProcess # Null /\ serverProcess' = Null =>
          \/ EventOf(serverProcess)
          \/ IsStartCall /\ spawnOutcome' \in {"throw", "nostreams"}
          \/ ~deactivated /\ deactivated']_vars

----------------------------------------------------------------------------
(* C26: the force-kill timer of deactivate *)

\* the children that are sent SIGKILL on this step
NewlyKilled == {c \in Children : "SIGKILL" \in signals'[c] \ signals[c]}

\* the exit of the child deactivate signalled clears an armed timer, and a
\* cleared timer never fires
C26_ClearedOnExit ==
  /\ \A c \in alive \ alive' :
       c = exitListener /\ forceKillTimeout = "armed" =>
         forceKillTimeout' = "cleared"
  /\ forceKillTimeout = "cleared" =>
       forceKillTimeout' = "cleared" /\ NewlyKilled = {}

\* C26: the force-kill timer armed by deactivate sends SIGKILL to no process
\* other than the child deactivate sent SIGTERM to, and sends nothing when
\* that child's exit event comes before the timer fires, because the exit
\* listener clears the timer.
C26_ForceKillOnlyOwnChild ==
  [][/\ \A c \in NewlyKilled :
          /\ c = exitListener
          /\ "SIGTERM" \in signals[c]
          /\ forceKillTimeout = "armed"
     /\ C26_ClearedOnExit]_vars

----------------------------------------------------------------------------
(* C28: the legacy server's validators against the SecurityManager's *)

\* C28: for every input and the same workspace root the legacy validatePath
\* and SecurityManager.validatePath both reject, for the same reason, or
\* both return the same path; the legacy handleCalculate lets through to
\* eval exactly the expressions SecurityManager.sanitizeMathExpression
\* accepts, and evaluates the same string.
C28_ValidatorsEquivalent ==
  /\ pathResult.called /\ legacyPath.called => legacyPath = pathResult
  /\ calcResult.called /\ legacyCalc.called =>
       legacyCalc.eval = calcResult.eval

C28_Witness ==
  /\ pathResult.called /\ legacyPath.called
  /\ calcResult.called /\ legacyCalc.called
  /\ calcResult.eval.reached
  /\ Len(calcResult.eval.code) < Len(calcArg.expression)

====
